---- MODULE Spec2Model ----
(***************************************************************************)
(* Model of the 802.11 MPDU decoder of wraith (radio/mpdu.py, radio/bits.py)*)
(*                                                                         *)
(* A byte string is a sequence of integers 0..255.  Python offsets are     *)
(* 0-based: the byte at Python offset o is element o+1 of the sequence.    *)
(* Formatted text (hexlify, macaddr) is a sequence of one-character        *)
(* strings.  Unsigned values wider than 16 bits ('L', 'Q') are held as     *)
(* little-endian sequences of 16-bit limbs.                                *)
(* One call of parse() is a run of the state machine Spec: pc is the        *)
(* position inside the call, and the locals of parse() are the variables.  *)
(* The pure functions of bits.py and the subfield decoders of mpdu.py are  *)
(* applied to drawn arguments under BitsSpec, one call a run.  The channel *)
(* tuner thread of suckt/rdoctl.py runs under TunerSpec.  Under each       *)
(* specification the variables of the other two stay at their idle value.  *)
(***************************************************************************)
EXTENDS Integers, Sequences, FiniteSets, TLC

VARIABLES
    input,      \* the frame argument as the caller passed it
    hasFCS,     \* the hasFCS argument
    pc,         \* position inside parse()
    frame,      \* local frame (rebound at mpdu.py:257 when hasFCS)
    ft, st, fs, \* result of framectrl()
    pfs,        \* list of present fields
    mac,        \* the dict under construction / returned
    offset,     \* local offset
    raised,     \* the exception that left parse(), if any
    fn,         \* BitsSpec: the function called
    args,       \* BitsSpec: its arguments
    ret,        \* BitsSpec: what the call gave: a value or an exception
    _chs,       \* Tuner._chs: the scan list
    _i,         \* Tuner._i: the index into the scan list
    _tC,        \* tokens sent on the connection and not yet received
    _eQ,        \* the event queue to the radio controller
    _done,      \* Tuner._done
    token,      \* local token of Tuner.run: the token last received
    tpc,        \* position inside Tuner.run
    tuned       \* the (ch,chw) of the tuner's last iw.chset that succeeded, <<>> before

mpduVars == <<input, hasFCS, pc, frame, ft, st, fs, pfs, mac, offset, raised>>
bitsVars == <<fn, args, ret>>
tunerVars == <<_chs, _i, _tC, _eQ, _done, token, tpc, tuned>>
vars == <<input, hasFCS, pc, frame, ft, st, fs, pfs, mac, offset, raised,
          fn, args, ret, _chs, _i, _tC, _eQ, _done, token, tpc, tuned>>

---------------------------------------------------------------------------
(* Bounds of the model *)

\* longest buffer of the dense range of lengths 0..MaxLen
MaxLen == 44

\* lengths that hold a whole uncompressed Block-Ack bitmap (128 bytes), and
\* the sixteen per-TID items of a multi-tid Block-Ack (12 bytes each)
LongLens == {20 + 128, 20 + 128 + 4, 18 + 16 * 12}

\* first bytes of the input: every byte value
FirstBytes == 0..255

\* the bytes after the first one repeat the pattern p: the byte at offset
\* o is p[(o % Len(p)) + 1].  For a pair, p[2] is at the odd offsets (flags
\* byte, high byte of a control word, IE length) and p[1] at the even ones
\* (low byte of a control word, IE tag); the pattern of four bytes makes
\* consecutive 16-bit words differ
Patterns == { <<0, 0>>, <<4, 0>>, <<2, 0>>, <<6, 16>>,
              <<221, 3>>, <<221, 1>>, <<1, 2>>, <<7, 255>>,
              <<6, 16, 52, 18>> }

\* arguments of the pure functions: every byte, every 16-bit word
Bytes == 0..255
Words == 0..65535
TxopBytes == Bytes
\* values a flag table is applied to, and values of the panel state
FlagValues == 0..255
StateValues == 0..63

Buffer(n, b0, p) ==
    [i \in 1..n |-> IF i = 1 THEN b0 ELSE p[((i - 1) % Len(p)) + 1]]

---------------------------------------------------------------------------
(* Python values *)

None == "None"

\* an exception object: its class and the leading text of its message
Exc(type, msg) == [type |-> type, msg |-> msg]
NoExc == Exc("none", "")

\* d[k] = v on a dict
Put(d, k, v) == [x \in (DOMAIN d) \cup {k} |-> IF x = k THEN v ELSE d[x]]

\* b[lo:hi] on a byte string, Python slice semantics (0 <= lo)
Slice(b, lo, hi) ==
    LET h == IF hi > Len(b) THEN Len(b) ELSE hi
    IN  IF lo >= h THEN <<>> ELSE SubSeq(b, lo + 1, h)

RECURSIVE Pow2(_)
Pow2(n) == IF n = 0 THEN 1 ELSE 2 * Pow2(n - 1)

\* a & b on non-negative integers
RECURSIVE BitAnd(_, _)
BitAnd(a, b) ==
    IF a = 0 \/ b = 0 THEN 0
    ELSE (a % 2) * (b % 2) + 2 * BitAnd(a \div 2, b \div 2)

\* a | b on non-negative integers
RECURSIVE BitOr(_, _)
BitOr(a, b) ==
    IF a = 0 THEN b ELSE IF b = 0 THEN a
    ELSE (IF a % 2 = 1 \/ b % 2 = 1 THEN 1 ELSE 0) + 2 * BitOr(a \div 2, b \div 2)

---------------------------------------------------------------------------
(* radio/bits.py *)

bitmask_list(bm, mn) ==
    [name \in DOMAIN bm |-> IF BitAnd(bm[name], mn) = bm[name] THEN 1 ELSE 0]

\* the names of a table in the order of their masks: one order in which
\* a dict can hand out its items
RECURSIVE ByMask(_, _)
ByMask(bm, names) ==
    IF names = {} THEN <<>>
    ELSE <<CHOOSE n \in names : \A m \in names : bm[n] <= bm[m]>>
         \o ByMask(bm, names \ {CHOOSE n \in names : \A m \in names : bm[n] <= bm[m]})

Reverse(s) == [k \in 1..Len(s) |-> s[Len(s) + 1 - k]]

\* orders of bm.items(): the order of a dict is the build's choice
ItemOrders(bm) == {ByMask(bm, DOMAIN bm), Reverse(ByMask(bm, DOMAIN bm))}

\* bitmask(bm,mn), items being bm.items() in the order the dict gives them
bitmask(bm, mn, items) ==
    IF mn = 0 THEN <<>>
    ELSE SelectSeq(items, LAMBDA name : BitAnd(mn, bm[name]) = bm[name])

\* bitmask_get that answers 0 for a name the table does not define
bitmask_get_Lenient(bm, mn, f) ==
    IF f \notin DOMAIN bm THEN [exc |-> NoExc, val |-> 0]
    ELSE [exc |-> NoExc, val |-> IF BitAnd(bm[f], mn) = bm[f] THEN 1 ELSE 0]

\* bitmask_get(bm,mn,f): the value, or the KeyError of bm[f]
bitmask_get(bm, mn, f) ==
    IF f \notin DOMAIN bm THEN [exc |-> Exc("KeyError", f), val |-> None]
    ELSE [exc |-> NoExc, val |-> IF BitAnd(bm[f], mn) = bm[f] THEN 1 ELSE 0]

\* bitmask_set with "and" for "or"
bitmask_set_And(bm, mn, f) ==
    IF f \notin DOMAIN bm THEN [exc |-> Exc("KeyError", f), val |-> None]
    ELSE [exc |-> NoExc, val |-> BitAnd(mn, bm[f])]

\* bitmask_set(bm,mn,f): mn | bm[f], or the KeyError of bm[f]
bitmask_set(bm, mn, f) ==
    IF f \notin DOMAIN bm THEN [exc |-> Exc("KeyError", f), val |-> None]
    ELSE [exc |-> NoExc, val |-> BitOr(mn, bm[f])]

\* bitmask_unset(bm,mn,f) of wraith/utils/bits.py: mn & ~bm[f]
bitmask_unset(bm, mn, f) ==
    IF f \notin DOMAIN bm THEN [exc |-> Exc("KeyError", f), val |-> None]
    ELSE [exc |-> NoExc, val |-> mn - BitAnd(mn, bm[f])]

leastx(x, v) == BitAnd(v, Pow2(x) - 1)

midx(s, x, v) == BitAnd(v, (Pow2(x) - 1) * Pow2(s))

mostx(s, v) == v \div Pow2(s)

---------------------------------------------------------------------------
(* the struct module, as mpdu.py uses it *)

Rep(n, c) == [i \in 1..n |-> c]

\* standard size of a format code (format strings prefixed by "=")
StdSize(c) == CASE c = "B" -> 1 [] c = "H" -> 2 [] c = "L" -> 4 [] c = "Q" -> 8

RECURSIVE StdCalcsize(_)
StdCalcsize(fmt) ==
    IF fmt = <<>> THEN 0 ELSE StdSize(Head(fmt)) + StdCalcsize(Tail(fmt))

\* sizes a build can give the native C long of struct.calcsize('L')
NativeLongSizes == {4, 8}

NativeSize(c, longsz) == IF c = "L" THEN longsz ELSE StdSize(c)

\* struct.calcsize(fmt) without a byte-order prefix: native sizes, each
\* item aligned to its own size, no trailing padding
RECURSIVE NativeEnd(_, _, _)
NativeEnd(fmt, pos, longsz) ==
    IF fmt = <<>> THEN pos
    ELSE LET sz == NativeSize(Head(fmt), longsz)
             al == ((pos + sz - 1) \div sz) * sz
         IN  NativeEnd(Tail(fmt), al + sz, longsz)

calcsize(fmt, longsz) == NativeEnd(fmt, 0, longsz)

\* one little-endian item: a number for B and H, 16-bit limbs for L and Q
Item(c, bs) ==
    IF c = "B" THEN bs[1]
    ELSE IF c = "H" THEN bs[1] + 256 * bs[2]
    ELSE [i \in 1..(StdSize(c) \div 2) |-> bs[2 * i - 1] + 256 * bs[2 * i]]

RECURSIVE Items(_, _, _)
Items(fmt, b, o) ==
    IF fmt = <<>> THEN <<>>
    ELSE <<Item(Head(fmt), Slice(b, o, o + StdSize(Head(fmt))))>>
         \o Items(Tail(fmt), b, o + StdSize(Head(fmt)))

\* struct.unpack_from("=" + fmt, b, o): the tuple, or struct.error
struct_unpack_from(fmt, b, o) ==
    IF Len(b) - o < StdCalcsize(fmt)
    THEN [exc |-> Exc("struct.error", "unpack_from requires a longer buffer"), vs |-> <<>>]
    ELSE [exc |-> NoExc, vs |-> Items(fmt, b, o)]

\* struct.unpack("=" + fmt, s): the length must match exactly
struct_unpack(fmt, s) ==
    IF Len(s) # StdCalcsize(fmt)
    THEN [exc |-> Exc("struct.error", "unpack requires a string of that length"), vs |-> <<>>]
    ELSE [exc |-> NoExc, vs |-> Items(fmt, s, 0)]

\* binascii.hexlify: two lower-case hex digits per byte
HexLower == <<"0","1","2","3","4","5","6","7","8","9","a","b","c","d","e","f">>
HexUpper == <<"0","1","2","3","4","5","6","7","8","9","A","B","C","D","E","F">>

hexlify(s) ==
    [i \in 1..(2 * Len(s)) |->
        IF i % 2 = 1 THEN HexLower[(s[(i + 1) \div 2] \div 16) + 1]
        ELSE HexLower[(s[i \div 2] % 16) + 1]]

\* '{0:02X}'.format(a)
Fmt02X(a) == <<HexUpper[(a \div 16) + 1], HexUpper[(a % 16) + 1]>>

\* sep.join(parts)
RECURSIVE Join(_, _)
Join(sep, parts) ==
    IF parts = <<>> THEN <<>>
    ELSE IF Len(parts) = 1 THEN parts[1]
    ELSE parts[1] \o <<sep>> \o Join(sep, Tail(parts))

---------------------------------------------------------------------------
(* radio/mpdu.py: constants and tables *)

_MIN_FRAME_ == <<"H", "H">> \o Rep(6, "B")
_MIN_FRAME_SZ_ == StdCalcsize(_MIN_FRAME_)
_FC_FLAGS_ == <<"B">>

FT_MGMT == 0
FT_CTRL == 1
FT_DATA == 2
FT_RSRV == 3

ST_MGMT_ASSOC_REQ    ==  0
ST_MGMT_ASSOC_RESP   ==  1
ST_MGMT_REASSOC_REQ  ==  2
ST_MGMT_REASSOC_RESP ==  3
ST_MGMT_PROBE_REQ    ==  4
ST_MGMT_PROBE_RESP   ==  5
ST_MGMT_TIMING_ADV   ==  6
ST_MGMT_RSRV_7       ==  7
ST_MGMT_BEACON       ==  8
ST_MGMT_ATIM         ==  9
ST_MGMT_DISASSOC     == 10
ST_MGMT_AUTH         == 11
ST_MGMT_DEAUTH       == 12
ST_MGMT_ACTION       == 13
ST_MGMT_ACTION_NOACK == 14
ST_MGMT_RSRV_15      == 15

\* keys are the value of the one-byte string
ST_MGMT ==
    (0 :> ST_MGMT_ASSOC_REQ) @@ (16 :> ST_MGMT_ASSOC_RESP) @@
    (32 :> ST_MGMT_REASSOC_REQ) @@ (48 :> ST_MGMT_REASSOC_RESP) @@
    (64 :> ST_MGMT_PROBE_REQ) @@ (80 :> ST_MGMT_PROBE_RESP) @@
    (96 :> ST_MGMT_TIMING_ADV) @@ (112 :> ST_MGMT_RSRV_7) @@
    (128 :> ST_MGMT_BEACON) @@ (144 :> ST_MGMT_ATIM) @@
    (160 :> ST_MGMT_DISASSOC) @@ (176 :> ST_MGMT_AUTH) @@
    (192 :> ST_MGMT_DEAUTH) @@ (208 :> ST_MGMT_ACTION) @@
    (224 :> ST_MGMT_ACTION_NOACK) @@ (240 :> ST_MGMT_RSRV_15)

ST_CTRL_RSRV_0        ==  0
ST_CTRL_RSRV_1        ==  1
ST_CTRL_RSRV_2        ==  2
ST_CTRL_RSRV_3        ==  3
ST_CTRL_RSRV_4        ==  4
ST_CTRL_RSRV_5        ==  5
ST_CTRL_RSRV_6        ==  6
ST_CTRL_WRAPPER       ==  7
ST_CTRL_BLOCK_ACK_REQ ==  8
ST_CTRL_BLOCK_ACK     ==  9
ST_CTRL_PSPOLL        == 10
ST_CTRL_RTS           == 11
ST_CTRL_CTS           == 12
ST_CTRL_ACK           == 13
ST_CTRL_CFEND         == 14
ST_CTRL_CFEND_CFACK   == 15

\* ST_CTRL with the CTS and ACK entries exchanged
ST_CTRL_Swapped ==
    (4 :> ST_CTRL_RSRV_0) @@ (20 :> ST_CTRL_RSRV_1) @@
    (36 :> ST_CTRL_RSRV_2) @@ (52 :> ST_CTRL_RSRV_3) @@
    (68 :> ST_CTRL_RSRV_4) @@ (84 :> ST_CTRL_RSRV_5) @@
    (100 :> ST_CTRL_RSRV_6) @@ (116 :> ST_CTRL_WRAPPER) @@
    (132 :> ST_CTRL_BLOCK_ACK_REQ) @@ (148 :> ST_CTRL_BLOCK_ACK) @@
    (164 :> ST_CTRL_PSPOLL) @@ (180 :> ST_CTRL_RTS) @@
    (196 :> ST_CTRL_ACK) @@ (212 :> ST_CTRL_CTS) @@
    (228 :> ST_CTRL_CFEND) @@ (244 :> ST_CTRL_CFEND_CFACK)

ST_CTRL ==
    (4 :> ST_CTRL_RSRV_0) @@ (20 :> ST_CTRL_RSRV_1) @@
    (36 :> ST_CTRL_RSRV_2) @@ (52 :> ST_CTRL_RSRV_3) @@
    (68 :> ST_CTRL_RSRV_4) @@ (84 :> ST_CTRL_RSRV_5) @@
    (100 :> ST_CTRL_RSRV_6) @@ (116 :> ST_CTRL_WRAPPER) @@
    (132 :> ST_CTRL_BLOCK_ACK_REQ) @@ (148 :> ST_CTRL_BLOCK_ACK) @@
    (164 :> ST_CTRL_PSPOLL) @@ (180 :> ST_CTRL_RTS) @@
    (196 :> ST_CTRL_CTS) @@ (212 :> ST_CTRL_ACK) @@
    (228 :> ST_CTRL_CFEND) @@ (244 :> ST_CTRL_CFEND_CFACK)

ST_DATA_DATA                  ==  0
ST_DATA_CFACK                 ==  1
ST_DATA_CFPOLL                ==  2
ST_DATA_CFACK_CFPOLL          ==  3
ST_DATA_NULL                  ==  4
ST_DATA_NULL_CFACK            ==  5
ST_DATA_NULL_CFPOLL           ==  6
ST_DATA_NULL_CFACK_CFPOLL     ==  7
ST_DATA_QOS_DATA              ==  8
ST_DATA_QOS_DATA_CFACK        ==  9
ST_DATA_QOS_DATA_CFPOLL       == 10
ST_DATA_QOS_DATA_CFACK_CFPOLL == 11
ST_DATA_QOS_NULL              == 12
ST_DATA_RSRV_13               == 13
ST_DATA_QOS_CFPOLL            == 14
ST_DATA_QOS_CFACK_CFPOLL      == 15

ST_DATA ==
    (8 :> ST_DATA_DATA) @@ (24 :> ST_DATA_CFACK) @@
    (40 :> ST_DATA_CFPOLL) @@ (56 :> ST_DATA_CFACK_CFPOLL) @@
    (72 :> ST_DATA_NULL) @@ (88 :> ST_DATA_NULL_CFACK) @@
    (104 :> ST_DATA_NULL_CFPOLL) @@ (120 :> ST_DATA_NULL_CFACK_CFPOLL) @@
    (136 :> ST_DATA_QOS_DATA) @@ (152 :> ST_DATA_QOS_DATA_CFACK) @@
    (168 :> ST_DATA_QOS_DATA_CFPOLL) @@ (184 :> ST_DATA_QOS_DATA_CFACK_CFPOLL) @@
    (200 :> ST_DATA_QOS_NULL) @@ (216 :> ST_DATA_RSRV_13) @@
    (232 :> ST_DATA_QOS_CFPOLL) @@ (248 :> ST_DATA_QOS_CFACK_CFPOLL)

\* unpack formats
_S2F_ ==
    ("framectrl" :> <<"H">>) @@ ("addr" :> Rep(6, "B")) @@
    ("seqctrl" :> <<"H">>) @@ ("bactrl" :> <<"H">>) @@
    ("barctrl" :> <<"H">>) @@ ("qos" :> <<"B", "B">>) @@
    ("htc" :> <<"L">>) @@ ("capability" :> <<"H">>) @@
    ("listen-int" :> <<"H">>) @@ ("status-code" :> <<"H">>) @@
    ("aid" :> <<"H">>) @@ ("timestamp" :> <<"Q">>) @@
    ("beacon-int" :> <<"H">>) @@ ("reason-code" :> <<"H">>) @@
    ("algorithm-no" :> <<"H">>) @@ ("auth-seq" :> <<"H">>) @@
    ("category" :> <<"B">>) @@ ("action" :> <<"B">>)

_FC_FIELDS_ ==
    ("td" :> 1) @@ ("fd" :> 2) @@ ("mf" :> 4) @@ ("r" :> 8) @@
    ("pm" :> 16) @@ ("md" :> 32) @@ ("pf" :> 64) @@ ("o" :> 128)

fcfields(mn, items) == bitmask(_FC_FIELDS_, mn, items)

\* fcfields_all that looks at the low seven bits only
fcfields_all_SevenBits(mn) == bitmask_list(_FC_FIELDS_, leastx(7, mn))

fcfields_all(mn) == bitmask_list(_FC_FIELDS_, mn)

\* lines 227-231: the KeyError becomes an MPDUException
fcfields_get(mn, f) ==
    IF bitmask_get(_FC_FIELDS_, mn, f).exc.type = "KeyError"
    THEN [exc |-> Exc("MPDUException", "invalid frame control flag"), val |-> None]
    ELSE bitmask_get(_FC_FIELDS_, mn, f)

---------------------------------------------------------------------------
(* framectrl(f): (ft, st, fs) or MPDUException *)

\* framectrl testing the first byte before the length
framectrl_TypeFirst(f) ==
    LET known == (DOMAIN ST_MGMT) \cup (DOMAIN ST_CTRL) \cup (DOMAIN ST_DATA)
    IN  IF Len(f) >= 1 /\ f[1] \notin known
        THEN [exc |-> Exc("MPDUException", "invalid frame type/subtype"), ft |-> None, st |-> None, fs |-> None]
        ELSE IF Len(f) < _MIN_FRAME_SZ_
        THEN [exc |-> Exc("MPDUException", "invalid frame size"), ft |-> None, st |-> None, fs |-> None]
        ELSE [exc |-> NoExc,
              ft |-> IF f[1] \in DOMAIN ST_MGMT THEN FT_MGMT
                     ELSE IF f[1] \in DOMAIN ST_CTRL THEN FT_CTRL ELSE FT_DATA,
              st |-> IF f[1] \in DOMAIN ST_MGMT THEN ST_MGMT[f[1]]
                     ELSE IF f[1] \in DOMAIN ST_CTRL THEN ST_CTRL[f[1]] ELSE ST_DATA[f[1]],
              fs |-> f[2]]

\* framectrl computing the type from bits 2..3 instead of the tables
framectrl_TypeBits(f) ==
    IF Len(f) < _MIN_FRAME_SZ_
    THEN [exc |-> Exc("MPDUException", "invalid frame size"), ft |-> None, st |-> None, fs |-> None]
    ELSE IF f[1] % 4 # 0
    THEN [exc |-> Exc("MPDUException", "invalid frame type/subtype"), ft |-> None, st |-> None, fs |-> None]
    ELSE [exc |-> NoExc, ft |-> (f[1] \div 4) % 4, st |-> f[1] \div 16, fs |-> f[2]]

framectrl(f) ==
    IF Len(f) < _MIN_FRAME_SZ_
    THEN [exc |-> Exc("MPDUException", "invalid frame size"), ft |-> None, st |-> None, fs |-> None]
    ELSE IF f[1] \notin (DOMAIN ST_MGMT) \cup (DOMAIN ST_CTRL) \cup (DOMAIN ST_DATA)
    THEN [exc |-> Exc("MPDUException", "invalid frame type/subtype"), ft |-> None, st |-> None, fs |-> None]
    ELSE LET t == IF f[1] \in DOMAIN ST_MGMT THEN FT_MGMT
                  ELSE IF f[1] \in DOMAIN ST_CTRL THEN FT_CTRL ELSE FT_DATA
             s == IF f[1] \in DOMAIN ST_MGMT THEN ST_MGMT[f[1]]
                  ELSE IF f[1] \in DOMAIN ST_CTRL THEN ST_CTRL[f[1]] ELSE ST_DATA[f[1]]
             u == struct_unpack_from(_FC_FLAGS_, f, 1)
         IN  IF u.exc.type = "struct.error"
             THEN [exc |-> Exc("MPDUException", "invalid frame control flags"), ft |-> None, st |-> None, fs |-> None]
             ELSE [exc |-> NoExc, ft |-> t, st |-> s, fs |-> u.vs[1]]


---------------------------------------------------------------------------
(* subfield decoders *)

\* macaddr(l): RuntimeError unless l has six items
macaddr(l) ==
    IF Len(l) # 6 THEN Exc("RuntimeError", "mac address has length 6")
    ELSE Join(":", [i \in 1..6 |-> Fmt02X(l[i])])

_SEQCTRL_DIVIDER_ == 4
\* seqctrl with the sequence number left in place instead of shifted down
seqctrl_NoShift(v) ==
    ("fragno" :> leastx(_SEQCTRL_DIVIDER_, v)) @@ ("seqno" :> midx(_SEQCTRL_DIVIDER_, 12, v))

seqctrl(v) ==
    ("fragno" :> leastx(_SEQCTRL_DIVIDER_, v)) @@ ("seqno" :> mostx(_SEQCTRL_DIVIDER_, v))

_QOS_FIELDS_ == ("eosp" :> 16) @@ ("a-msdu" :> 128)
_QOS_TID_END_ == 4
_QOS_ACK_POLICY_START_ == 5
_QOS_ACK_POLICY_LEN_ == 2

\* qosctrl with the ack policy shifted down to bit 0
qosctrl_AckShifted(v) ==
    Put(Put(Put(bitmask_list(_QOS_FIELDS_, v[1]), "tid", leastx(_QOS_TID_END_, v[1])),
            "ack-policy", mostx(_QOS_ACK_POLICY_START_,
                                midx(_QOS_ACK_POLICY_START_, _QOS_ACK_POLICY_LEN_, v[1]))),
        "txop", v[2])

qosctrl(v) ==
    LET lsb == v[1]
        msb == v[2]
        qos == bitmask_list(_QOS_FIELDS_, lsb)
    IN  Put(Put(Put(qos, "tid", leastx(_QOS_TID_END_, lsb)),
                "ack-policy", midx(_QOS_ACK_POLICY_START_, _QOS_ACK_POLICY_LEN_, lsb)),
            "txop", msb)

_QOS_AP_PS_BUFFER_FIELDS == ("rsrv" :> 1) @@ ("buffer-state-indicated" :> 2)
_QOS_AP_PS_BUFFER_HIGH_PRI_START_ == 2
_QOS_AP_PS_BUFFER_HIGH_PRI_LEN_ == 2
_QOS_AP_PS_BUFFER_AP_BUFF_START_ == 4

_QOS_MESH_FIELDS_ == ("mesh-control" :> 1) @@ ("pwr-save-lvl" :> 2) @@ ("rspi" :> 4)

\* lines 601-606: the flags are taken from _QOS_FIELDS_
qosapbufferstate(v) ==
    Put(Put(bitmask_list(_QOS_FIELDS_, v),
            "high-pri", midx(_QOS_AP_PS_BUFFER_HIGH_PRI_START_,
                             _QOS_AP_PS_BUFFER_HIGH_PRI_LEN_, v)),
        "ap-buffered", mostx(_QOS_AP_PS_BUFFER_AP_BUFF_START_, v))

_BACTRL_ == ("ackpolicy" :> 1) @@ ("multi-tid" :> 2) @@ ("compressed-bm" :> 4)
_BACTRL_RSRV_START_ == 3
_BACTRL_RSRV_LEN_ == 9
_BACTRL_TID_INFO_START_ == 12

\* the ba/bar control with the multi-tid and compressed-bm bits exchanged
bactrl_Swapped(v) ==
    Put(Put(bitmask_list(("ackpolicy" :> 1) @@ ("multi-tid" :> 4) @@ ("compressed-bm" :> 2), v),
            "rsrv", midx(_BACTRL_RSRV_START_, _BACTRL_RSRV_LEN_, v)),
        "tid-info", mostx(_BACTRL_TID_INFO_START_, v))

bactrl(v) ==
    Put(Put(bitmask_list(_BACTRL_, v),
            "rsrv", midx(_BACTRL_RSRV_START_, _BACTRL_RSRV_LEN_, v)),
        "tid-info", mostx(_BACTRL_TID_INFO_START_, v))

_BACTRL_PERTID_DIVIDER_ == 12

pertid(v) ==
    Put(Put(seqctrl(v[2]),
            "pertid-rsrv", leastx(_BACTRL_PERTID_DIVIDER_, v[1])),
        "pertid-tid", mostx(_BACTRL_PERTID_DIVIDER_, v[1]))

---------------------------------------------------------------------------
(* _unpack_from_(fmt, b, o): (values, new offset) or MPDUException.        *)
(* The values come from "=" + fmt, the advance from calcsize(fmt), which   *)
(* has no byte-order prefix; longsz is the build's native long.            *)

\* lines 719-722, u being the outcome of struct.unpack_from at line 718
unpacked(u, fmt, o, longsz) ==
    IF u.exc.type = "struct.error"
    THEN [exc |-> Exc("MPDUException", "Error unpacking"), vs |-> <<>>, o |-> None]
    ELSE [exc |-> NoExc,
          vs  |-> IF Len(u.vs) = 1 THEN u.vs[1] ELSE u.vs,
          o   |-> o + calcsize(fmt, longsz)]

_unpack_from_(fmt, b, o, longsz) ==
    unpacked(struct_unpack_from(fmt, b, o), fmt, o, longsz)

(* A header parser is a pipeline over a record s: the offset o, the list   *)
(* pfs and the dict d it works on, the values vs of its last unpack, and   *)
(* the exception exc that ended it, if any.  scan is set when parsemgmt    *)
(* goes on to the information elements.                                    *)

Ret(o, p, d) == [exc |-> NoExc, o |-> o, pfs |-> p, d |-> d, vs |-> <<>>, scan |-> FALSE]
Raise(e) == [exc |-> e, o |-> None, pfs |-> <<>>, d |-> <<>>, vs |-> <<>>, scan |-> FALSE]
Ok(s) == s.exc.type = "none"

\* v,o = ... of an unpack whose outcome is u
took(s, u) ==
    IF u.exc.type # "none" THEN Raise(u.exc) ELSE [s EXCEPT !.vs = u.vs, !.o = u.o]

\* v,o = _unpack_from_(fmt,f,o)
read(s, fmt, f, longsz) ==
    IF ~Ok(s) THEN s ELSE took(s, _unpack_from_(fmt, f, s.o, longsz))

\* pfs.append / pfs.extend
push(s, names) == IF ~Ok(s) THEN s ELSE [s EXCEPT !.pfs = s.pfs \o names]

\* d[key] = macaddr(v)
store_addr(s, key) ==
    IF ~Ok(s) THEN s ELSE [s EXCEPT !.d = Put(s.d, key, macaddr(s.vs))]

\* d[key]['type'] = ty
set_type(s, key, ty) ==
    IF ~Ok(s) THEN s ELSE [s EXCEPT !.d = Put(s.d, key, Put(s.d[key], "type", ty))]

---------------------------------------------------------------------------
(* parsectrl *)

\* d[key] = bactrl(v), lines 307 and 339
store_bactrl(s, key) ==
    IF ~Ok(s) THEN s ELSE [s EXCEPT !.d = Put(s.d, key, bactrl(s.vs))]

\* d[key] = seqctrl(v), lines 317 and 344
store_seqctrl(s, key) ==
    IF ~Ok(s) THEN s ELSE [s EXCEPT !.d = Put(s.d, key, seqctrl(s.vs))]

\* line 330: d['barinfo']['tids'].append(pertid(v))
bar_tid(s) ==
    IF ~Ok(s) THEN s
    ELSE [s EXCEPT !.d = Put(s.d, "barinfo",
                             ("tids" :> Append(s.d["barinfo"]["tids"], pertid(s.vs))))]

\* lines 328-330: n iterations of the per-TID loop of a multi-tid BlockAckReq
RECURSIVE bar_tids(_, _, _, _)
bar_tids(s, f, n, longsz) ==
    IF ~Ok(s) \/ n = 0 THEN s
    ELSE bar_tids(bar_tid(read(s, <<"H", "H">>, f, longsz)), f, n - 1, longsz)

\* lines 366-369: the per-TID item with its 8-byte bitmap
ba_tid(s, f) ==
    IF ~Ok(s) THEN s
    ELSE [s EXCEPT !.d = Put(s.d, "bainfo",
                             ("tids" :> Append(s.d["bainfo"]["tids"],
                                               Put(pertid(s.vs), "babitmap",
                                                   hexlify(Slice(f, s.o, s.o + 8)))))),
                   !.o = s.o + 8]

\* lines 364-369: n iterations of the per-TID loop of a multi-tid BlockAck
RECURSIVE ba_tids(_, _, _, _)
ba_tids(s, f, n, longsz) ==
    IF ~Ok(s) \/ n = 0 THEN s
    ELSE ba_tids(ba_tid(read(s, <<"H", "H">>, f, longsz), f), f, n - 1, longsz)

\* lines 321-323: the reserved BlockAckReq keeps the rest and moves to the end
bar_unparsed(s, f) ==
    [s EXCEPT !.d = Put(s.d, "barinfo", ("unparsed" :> hexlify(Slice(f, s.o, Len(f))))),
              !.o = s.o + Len(Slice(f, s.o, Len(f)))]

\* lines 309-330: the bar info field, s holding addr2 and barctrl
\* the bar info field with tid-info, not tid-info + 1, per-TID items
bar_info_NoPlusOne(s, f, longsz) ==
    IF ~Ok(s) THEN s
    ELSE IF s.d["barctrl"]["multi-tid"] = 0
    THEN store_seqctrl(
             read(set_type(s, "barctrl",
                           IF s.d["barctrl"]["compressed-bm"] = 0 THEN "basic"
                           ELSE "compressed"),
                  _S2F_["seqctrl"], f, longsz),
             "barinfo")
    ELSE IF s.d["barctrl"]["compressed-bm"] = 0
    THEN bar_unparsed(set_type(s, "barctrl", "reserved"), f)
    ELSE bar_tids([set_type(s, "barctrl", "multi-tid")
                      EXCEPT !.d = Put(@, "barinfo", ("tids" :> <<>>))],
                  f, s.d["barctrl"]["tid-info"], longsz)

bar_info(s, f, longsz) ==
    IF ~Ok(s) THEN s
    ELSE IF s.d["barctrl"]["multi-tid"] = 0
    THEN store_seqctrl(
             read(set_type(s, "barctrl",
                           IF s.d["barctrl"]["compressed-bm"] = 0 THEN "basic"
                           ELSE "compressed"),
                  _S2F_["seqctrl"], f, longsz),
             "barinfo")
    ELSE IF s.d["barctrl"]["compressed-bm"] = 0
    THEN bar_unparsed(set_type(s, "barctrl", "reserved"), f)
    ELSE bar_tids([set_type(s, "barctrl", "multi-tid")
                      EXCEPT !.d = Put(@, "barinfo", ("tids" :> <<>>))],
                  f, s.d["barctrl"]["tid-info"] + 1, longsz)

\* lines 348-349 and 353-354: the bitmap of n bytes after the sequence control
ba_bitmap(s, f, n) ==
    IF ~Ok(s) THEN s
    ELSE [s EXCEPT !.d = Put(s.d, "bainfo",
                             Put(s.d["bainfo"], "babitmap", hexlify(Slice(f, s.o, s.o + n)))),
                   !.o = s.o + n]

\* lines 358-359: the reserved BlockAck keeps the rest and leaves o alone
\* the reserved BlockAck moving o to the end as the reserved BlockAckReq does
ba_unparsed_Advancing(s, f) ==
    [s EXCEPT !.d = Put(s.d, "bainfo", ("unparsed" :> hexlify(Slice(f, s.o, Len(f))))),
              !.o = s.o + Len(Slice(f, s.o, Len(f)))]

ba_unparsed(s, f) ==
    [s EXCEPT !.d = Put(s.d, "bainfo", ("unparsed" :> hexlify(Slice(f, s.o, Len(f)))))]

\* lines 341-369: the ba info field, s holding addr2 and bactrl
ba_info(s, f, longsz) ==
    IF ~Ok(s) THEN s
    ELSE IF s.d["bactrl"]["multi-tid"] = 0
    THEN IF s.d["bactrl"]["compressed-bm"] = 0
         THEN ba_bitmap(set_type(store_seqctrl(read(s, _S2F_["seqctrl"], f, longsz), "bainfo"),
                                 "bactrl", "basic"),
                        f, 128)
         ELSE ba_bitmap(set_type(store_seqctrl(read(s, _S2F_["seqctrl"], f, longsz), "bainfo"),
                                 "bactrl", "compressed"),
                        f, 8)
    ELSE IF s.d["bactrl"]["compressed-bm"] = 0
    THEN ba_unparsed(set_type(s, "bactrl", "reserved"), f)
    ELSE ba_tids([set_type(s, "bactrl", "multi-tid")
                     EXCEPT !.d = Put(@, "bainfo", ("tids" :> <<>>))],
                 f, s.d["bactrl"]["tid-info"] + 1, longsz)

\* line 374: d['carriedframectrl'] = v
wrapper_fc(s) ==
    IF ~Ok(s) THEN s ELSE [s EXCEPT !.d = Put(s.d, "carriedframectrl", s.vs)]

\* lines 376-378: htc, then the carried frame is the rest
wrapper_rest(s, f) ==
    IF ~Ok(s) THEN s
    ELSE [s EXCEPT !.d = Put(Put(s.d, "htc", s.vs),
                             "carriedframe", hexlify(Slice(f, s.o, Len(f)))),
                   !.o = s.o + Len(Slice(f, s.o, Len(f)))]

\* parsectrl reading an addr2 in an ACK as well
parsectrl_AckWithAddr2(sub, f, p, d, o, longsz) ==
    IF sub = ST_CTRL_CTS THEN Ret(o, p, d)
    ELSE IF sub \in {ST_CTRL_ACK, ST_CTRL_RTS, ST_CTRL_PSPOLL, ST_CTRL_CFEND, ST_CTRL_CFEND_CFACK}
    THEN store_addr(read(Ret(o, Append(p, "addr2"), d), _S2F_["addr"], f, longsz), "addr2")
    ELSE IF sub = ST_CTRL_BLOCK_ACK_REQ
    THEN bar_info(
             store_bactrl(
                 read(store_addr(read(Ret(o, p \o <<"addr2", "barctrl">>, d),
                                      _S2F_["addr"], f, longsz),
                                 "addr2"),
                      _S2F_["barctrl"], f, longsz),
                 "barctrl"),
             f, longsz)
    ELSE IF sub = ST_CTRL_BLOCK_ACK
    THEN ba_info(
             store_bactrl(
                 read(store_addr(read(Ret(o, p \o <<"addr2", "bactrl">>, d),
                                      _S2F_["addr"], f, longsz),
                                 "addr2"),
                      _S2F_["bactrl"], f, longsz),
                 "bactrl"),
             f, longsz)
    ELSE IF sub = ST_CTRL_WRAPPER
    THEN wrapper_rest(
             read(wrapper_fc(read(Ret(o, p \o <<"carriedframectrl", "htc", "carriedframe">>, d),
                                  _S2F_["framectrl"], f, longsz)),
                  _S2F_["htc"], f, longsz),
             f)
    ELSE Raise(Exc("MPDUException", "Unknown subtype in CTRL frame"))

parsectrl(sub, f, p, d, o, longsz) ==
    IF sub = ST_CTRL_CTS \/ sub = ST_CTRL_ACK THEN Ret(o, p, d)
    ELSE IF sub \in {ST_CTRL_RTS, ST_CTRL_PSPOLL, ST_CTRL_CFEND, ST_CTRL_CFEND_CFACK}
    THEN store_addr(read(Ret(o, Append(p, "addr2"), d), _S2F_["addr"], f, longsz), "addr2")
    ELSE IF sub = ST_CTRL_BLOCK_ACK_REQ
    THEN bar_info(
             store_bactrl(
                 read(store_addr(read(Ret(o, p \o <<"addr2", "barctrl">>, d),
                                      _S2F_["addr"], f, longsz),
                                 "addr2"),
                      _S2F_["barctrl"], f, longsz),
                 "barctrl"),
             f, longsz)
    ELSE IF sub = ST_CTRL_BLOCK_ACK
    THEN ba_info(
             store_bactrl(
                 read(store_addr(read(Ret(o, p \o <<"addr2", "bactrl">>, d),
                                      _S2F_["addr"], f, longsz),
                                 "addr2"),
                      _S2F_["bactrl"], f, longsz),
                 "bactrl"),
             f, longsz)
    ELSE IF sub = ST_CTRL_WRAPPER
    THEN wrapper_rest(
             read(wrapper_fc(read(Ret(o, p \o <<"carriedframectrl", "htc", "carriedframe">>, d),
                                  _S2F_["framectrl"], f, longsz)),
                  _S2F_["htc"], f, longsz),
             f)
    ELSE Raise(Exc("MPDUException", "Unknown subtype in CTRL frame"))

---------------------------------------------------------------------------
(* parsedata *)

\* the fourth-address test with "or" for "and"
HasAddr4_Either(flags) == flags["td"] = 1 \/ flags["fd"] = 1

\* the test of mpdu.py:401 on the flag dict
HasAddr4(flags) == flags["td"] = 1 /\ flags["fd"] = 1

\* the test of mpdu.py:407
HasQos(sub) == ST_DATA_QOS_DATA <= sub /\ sub <= ST_DATA_QOS_CFACK_CFPOLL

\* lines 393-395 and 428-430: addr2, addr3 and seqctrl from one unpack
store_hdr(s) ==
    IF ~Ok(s) THEN s
    ELSE [s EXCEPT !.d = Put(Put(Put(s.d, "addr2", macaddr(SubSeq(s.vs, 1, 6))),
                                 "addr3", macaddr(SubSeq(s.vs, 7, 12))),
                             "seqctrl", seqctrl(s.vs[Len(s.vs)]))]

\* lines 397-404
data_addr4(s, f, longsz) ==
    IF ~Ok(s) THEN s
    ELSE IF HasAddr4(fcfields_all(s.d["framectrl"]["flags"]))
    THEN store_addr(read(push(s, <<"addr4">>), _S2F_["addr"], f, longsz), "addr4")
    ELSE s

\* line 410: d['qos'] = qosctrl(v)
store_qos(s) ==
    IF ~Ok(s) THEN s ELSE [s EXCEPT !.d = Put(s.d, "qos", qosctrl(s.vs))]

\* lines 406-410
data_qos(s, sub, f, longsz) ==
    IF ~Ok(s) THEN s
    ELSE IF HasQos(sub)
    THEN store_qos(read(push(s, <<"qos">>), _S2F_["qos"], f, longsz))
    ELSE s

parsedata(sub, f, p, d, o, longsz) ==
    data_qos(
        data_addr4(
            store_hdr(read(Ret(o, p \o <<"addr2", "addr3", "seqctrl">>, d),
                           _S2F_["addr"] \o _S2F_["addr"] \o _S2F_["seqctrl"], f, longsz)),
            f, longsz),
        sub, f, longsz)

---------------------------------------------------------------------------
(* parsemgmt *)

\* names of radio/infoelement.py that mpdu.py uses
EID_SUPPORTED_RATES == 1
EID_EXT_RATES == 50
EID_VEND_SPEC == 221

\* ie.getrate: the rate of a rate byte, in units of 500 kbit/s
getrate(val) == leastx(7, val)

\* the subtypes whose branch of lines 440-499 unpacks fixed parameters
FixedSubtypes ==
    {ST_MGMT_ASSOC_REQ, ST_MGMT_ASSOC_RESP, ST_MGMT_REASSOC_RESP, ST_MGMT_REASSOC_REQ,
     ST_MGMT_TIMING_ADV, ST_MGMT_PROBE_RESP, ST_MGMT_BEACON, ST_MGMT_DISASSOC,
     ST_MGMT_DEAUTH, ST_MGMT_AUTH, ST_MGMT_ACTION, ST_MGMT_ACTION_NOACK}

\* the format strings with a one-byte listen-int in ASSOC_REQ
fixed_fmt_ShortAssocReq(sub) ==
    IF sub = ST_MGMT_ASSOC_REQ THEN _S2F_["capability"] \o _S2F_["category"]
    ELSE IF sub = ST_MGMT_ASSOC_RESP \/ sub = ST_MGMT_REASSOC_RESP
    THEN _S2F_["capability"] \o _S2F_["status-code"] \o _S2F_["aid"]
    ELSE IF sub = ST_MGMT_REASSOC_REQ
    THEN _S2F_["capability"] \o _S2F_["listen-int"] \o _S2F_["addr"]
    ELSE IF sub = ST_MGMT_TIMING_ADV THEN _S2F_["timestamp"] \o _S2F_["capability"]
    ELSE IF sub = ST_MGMT_PROBE_RESP \/ sub = ST_MGMT_BEACON
    THEN _S2F_["timestamp"] \o _S2F_["beacon-int"] \o _S2F_["capability"]
    ELSE IF sub = ST_MGMT_DISASSOC \/ sub = ST_MGMT_DEAUTH THEN _S2F_["reason-code"]
    ELSE IF sub = ST_MGMT_AUTH
    THEN _S2F_["algorithm-no"] \o _S2F_["auth-seq"] \o _S2F_["status-code"]
    ELSE _S2F_["category"] \o _S2F_["action"]

\* the format string fmt that the branch of subtype sub builds
fixed_fmt(sub) ==
    IF sub = ST_MGMT_ASSOC_REQ THEN _S2F_["capability"] \o _S2F_["listen-int"]
    ELSE IF sub = ST_MGMT_ASSOC_RESP \/ sub = ST_MGMT_REASSOC_RESP
    THEN _S2F_["capability"] \o _S2F_["status-code"] \o _S2F_["aid"]
    ELSE IF sub = ST_MGMT_REASSOC_REQ
    THEN _S2F_["capability"] \o _S2F_["listen-int"] \o _S2F_["addr"]
    ELSE IF sub = ST_MGMT_TIMING_ADV THEN _S2F_["timestamp"] \o _S2F_["capability"]
    ELSE IF sub = ST_MGMT_PROBE_RESP \/ sub = ST_MGMT_BEACON
    THEN _S2F_["timestamp"] \o _S2F_["beacon-int"] \o _S2F_["capability"]
    ELSE IF sub = ST_MGMT_DISASSOC \/ sub = ST_MGMT_DEAUTH THEN _S2F_["reason-code"]
    ELSE IF sub = ST_MGMT_AUTH
    THEN _S2F_["algorithm-no"] \o _S2F_["auth-seq"] \o _S2F_["status-code"]
    ELSE _S2F_["category"] \o _S2F_["action"]

\* d['fixed-params'] of subtype sub from the unpacked values v
fixed_value(sub, v) ==
    IF sub = ST_MGMT_ASSOC_REQ
    THEN ("capability" :> v[1]) @@ ("listen-int" :> v[2])
    ELSE IF sub = ST_MGMT_ASSOC_RESP \/ sub = ST_MGMT_REASSOC_RESP
    THEN ("capability" :> v[1]) @@ ("status-code" :> v[2]) @@ ("aid" :> leastx(14, v[3]))
    ELSE IF sub = ST_MGMT_REASSOC_REQ
    THEN ("capability" :> v[1]) @@ ("listen-int" :> v[2])
         @@ ("current-ap" :> macaddr(SubSeq(v, 3, Len(v))))
    ELSE IF sub = ST_MGMT_TIMING_ADV
    THEN ("timestamp" :> v[1]) @@ ("capability" :> v[2])
    ELSE IF sub = ST_MGMT_PROBE_RESP \/ sub = ST_MGMT_BEACON
    THEN ("timestamp" :> v[1]) @@ ("beacon-int" :> v[2] * 1024) @@ ("capability" :> v[3])
    ELSE IF sub = ST_MGMT_DISASSOC \/ sub = ST_MGMT_DEAUTH
    THEN ("reason-code" :> v)
    ELSE IF sub = ST_MGMT_AUTH
    THEN ("algorithm-no" :> v[1]) @@ ("auth-seq" :> v[2]) @@ ("status-code" :> v[3])
    ELSE ("category" :> v[1]) @@ ("action" :> v[2])

\* the action element(s) stored without moving o to the end
mgmt_action_NoAdvance(s, sub, f) ==
    IF ~Ok(s) \/ sub \notin {ST_MGMT_ACTION, ST_MGMT_ACTION_NOACK} THEN s
    ELSE IF s.o < Len(f)
    THEN [s EXCEPT !.pfs = Append(s.pfs, "action-els"),
                   !.d = Put(s.d, "action-el", Slice(f, s.o, Len(f)))]
    ELSE s

\* lines 495-499: the action element(s) of ACTION / ACTION_NOACK
mgmt_action(s, sub, f) ==
    IF ~Ok(s) \/ sub \notin {ST_MGMT_ACTION, ST_MGMT_ACTION_NOACK} THEN s
    ELSE IF s.o < Len(f)
    THEN [s EXCEPT !.pfs = Append(s.pfs, "action-els"),
                   !.d = Put(s.d, "action-el", Slice(f, s.o, Len(f))),
                   !.o = Len(f)]
    ELSE s

\* d['fixed-params'] = {...} from the values just unpacked
store_fixed(s, sub) ==
    IF ~Ok(s) THEN s
    ELSE [s EXCEPT !.d = Put(s.d, "fixed-params", fixed_value(sub, s.vs)), !.scan = TRUE]

\* the fixed parameters with the last branch falling through to the scan
mgmt_fixed_ScanAll(s, sub, f, longsz) ==
    IF ~Ok(s) THEN s
    ELSE IF sub = ST_MGMT_PROBE_REQ THEN [s EXCEPT !.scan = TRUE]
    ELSE IF sub \in FixedSubtypes
    THEN mgmt_action(
             store_fixed(read(push(s, <<"fixed-params">>), fixed_fmt(sub), f, longsz), sub),
             sub, f)
    ELSE [s EXCEPT !.scan = TRUE]

\* lines 439-502: the fixed parameters of subtype sub; scan tells whether
\* control falls through to the information elements
mgmt_fixed(s, sub, f, longsz) ==
    IF ~Ok(s) THEN s
    ELSE IF sub = ST_MGMT_PROBE_REQ THEN [s EXCEPT !.scan = TRUE]
    ELSE IF sub \in FixedSubtypes
    THEN mgmt_action(
             store_fixed(read(push(s, <<"fixed-params">>), fixed_fmt(sub), f, longsz), sub),
             sub, f)
    ELSE s

\* lines 504-507: the head of the information-element scan
mgmt_scan(s, f) ==
    IF ~Ok(s) THEN s
    ELSE IF s.scan /\ s.o < Len(f)
    THEN [s EXCEPT !.pfs = Append(s.pfs, "info-elements"),
                   !.d = Put(s.d, "info-elements", <<>>)]
    ELSE [s EXCEPT !.scan = FALSE]

\* parsemgmt up to the head of the while loop (lines 420-507); scan is TRUE
\* when the loop is entered
parsemgmt(sub, f, p, d, o, longsz) ==
    mgmt_scan(
        mgmt_fixed(
            store_hdr(read(Ret(o, p \o <<"addr2", "addr3", "seqctrl">>, d),
                           _S2F_["addr"] \o _S2F_["addr"] \o _S2F_["seqctrl"], f, longsz)),
            sub, f, longsz),
        f)

\* lines 518-519, u being the outcome of struct.unpack("=3B", info[1][:3])
vend_item(info, u) ==
    IF u.exc.type # "none" THEN [exc |-> u.exc, item |-> <<>>]
    ELSE [exc |-> NoExc,
          item |-> <<info[1], <<Join("-", [i \in 1..3 |-> Fmt02X(u.vs[i])]),
                                Slice(info[2], 3, Len(info[2]))>> >>]

\* the refinement of one element (lines 515-527): the item appended to
\* d['info-elements'], or the exception raised on the way
ie_item(info) ==
    IF info[1] = EID_VEND_SPEC
    THEN vend_item(info, struct_unpack(Rep(3, "B"), Slice(info[2], 0, 3)))
    ELSE IF info[1] = EID_SUPPORTED_RATES \/ info[1] = EID_EXT_RATES
    THEN [exc |-> NoExc,
          item |-> <<info[1], [i \in 1..Len(info[2]) |-> getrate(info[2][i])]>>]
    ELSE [exc |-> NoExc, item |-> info]

\* the append with the cursor put back to the head of the element
ie_append_Rewind(s, it) ==
    IF it.exc.type # "none" THEN Raise(it.exc)
    ELSE [s EXCEPT !.o = s.o - 2 + s.vs[2],
                   !.d = Put(s.d, "info-elements", Append(s.d["info-elements"], it.item))]

\* line 513 and the append, it being the refined item
ie_append(s, it) ==
    IF it.exc.type # "none" THEN Raise(it.exc)
    ELSE [s EXCEPT !.o = s.o + s.vs[2],
                   !.d = Put(s.d, "info-elements", Append(s.d["info-elements"], it.item))]

\* lines 512-527, s holding the unpacked (id, length) pair
ie_body(s, f) ==
    IF ~Ok(s) THEN s
    ELSE ie_append(s, ie_item(<<s.vs[1], Slice(f, s.o, s.o + s.vs[2])>>))

\* one iteration of the while loop (lines 508-527)
ie_step(f, d, o, longsz) ==
    ie_body(read(Ret(o, <<>>, d), <<"B", "B">>, f, longsz), f)

---------------------------------------------------------------------------
(* parse(frame, hasFCS) *)

\* line 256: mac['fcs']
fcs_field(f, fcs, d) ==
    IF fcs THEN Put(d, "fcs", struct_unpack(<<"L">>, Slice(f, Len(f) - 4, Len(f))).vs[1])
    ELSE d

\* the frame kept whole
strip_fcs_Keep(f, fcs) == f

\* line 257: frame = frame[:-4]
strip_fcs(f, fcs) == IF fcs THEN Slice(f, 0, Len(f) - 4) ELSE f

\* lines 260-265, u being the outcome of struct.unpack(_MIN_FRAME_, frame[:offset])
min_fields(d, u) ==
    IF u.exc.type # "none"
    THEN [exc |-> Exc("MPDUException", u.exc.msg), d |-> d]
    ELSE [exc |-> NoExc,
          d |-> Put(Put(d, "duration", u.vs[2]), "addr1", macaddr(SubSeq(u.vs, 3, 8)))]

\* the minimum header unpacked from the frame with its FCS still on
min_frame_NoStrip(f, fcs, d, o) ==
    min_fields(fcs_field(f, fcs, d), struct_unpack(_MIN_FRAME_, Slice(f, 0, o)))

\* lines 253-265: drop the FCS, then unpack duration and addr1
min_frame(f, fcs, d, o) ==
    min_fields(fcs_field(f, fcs, d), struct_unpack(_MIN_FRAME_, Slice(strip_fcs(f, fcs), 0, o)))

\* lines 267-275: the dispatch on the frame type
\* the dispatch with Control frames handed to parsedata
dispatch_CtrlAsData(t, sub, f, p, d, o, longsz) ==
    IF t = FT_CTRL THEN parsedata(sub, f, p, d, o, longsz)
    ELSE IF t = FT_MGMT THEN parsemgmt(sub, f, p, d, o, longsz)
    ELSE IF t = FT_DATA THEN parsedata(sub, f, p, d, o, longsz)
    ELSE Raise(Exc("MPDUException", "unresolved"))

dispatch(t, sub, f, p, d, o, longsz) ==
    IF t = FT_CTRL THEN parsectrl(sub, f, p, d, o, longsz)
    ELSE IF t = FT_MGMT THEN parsemgmt(sub, f, p, d, o, longsz)
    ELSE IF t = FT_DATA THEN parsedata(sub, f, p, d, o, longsz)
    ELSE Raise(Exc("MPDUException", "unresolved"))

\* the total without the FCS bytes
ttlRead_NoFcs(o, fcs) == o

\* lines 277-280
ttlRead(o, fcs) == IF fcs THEN o + 4 ELSE o
present(p, fcs) == IF fcs THEN Append(p, "fcs") ELSE p

\* the variables of BitsSpec and of TunerSpec while they do not run
\* no function of bits.py is being applied
BitsIdle == fn = None /\ args = <<>> /\ ret = <<>>
TunerIdle ==
    /\ _chs = <<>> /\ _i = 0 /\ _tC = <<>> /\ _eQ = <<>>
    /\ _done = FALSE /\ token = None /\ tpc = "idle" /\ tuned = <<>>

Init ==
    /\ \E n \in (0..MaxLen) \cup LongLens, b0 \in FirstBytes, p \in Patterns :
          input = Buffer(n, b0, p)
    /\ hasFCS \in BOOLEAN
    /\ pc = "framectrl"
    /\ frame = input
    /\ ft = None /\ st = None /\ fs = None
    /\ pfs = <<>>
    /\ mac = <<>>
    /\ offset = 0
    /\ raised = NoExc
    /\ BitsIdle /\ TunerIdle

\* lines 246-251
Framectrl ==
    /\ pc = "framectrl"
    /\ \E r \in {framectrl(frame)} :
         IF r.exc.type # "none"
         THEN /\ raised' = r.exc
              /\ pc' = "done"
              /\ UNCHANGED <<ft, st, fs, pfs, mac, offset>>
         ELSE /\ ft' = r.ft /\ st' = r.st /\ fs' = r.fs
              /\ pfs' = <<"framectrl", "duration", "addr1">>
              /\ mac' = ("framectrl" :> [type |-> r.ft, subtype |-> r.st, flags |-> r.fs])
              /\ offset' = _MIN_FRAME_SZ_
              /\ pc' = "minframe"
              /\ UNCHANGED raised
    /\ UNCHANGED <<input, hasFCS, frame, bitsVars, tunerVars>>

\* lines 253-265
MinFrame ==
    /\ pc = "minframe"
    /\ frame' = strip_fcs(frame, hasFCS)
    /\ \E r \in {min_frame(frame, hasFCS, mac, offset)} :
         /\ mac' = r.d
         /\ IF r.exc.type # "none"
            THEN raised' = r.exc /\ pc' = "done"
            ELSE pc' = "dispatch" /\ UNCHANGED raised
    /\ UNCHANGED <<input, hasFCS, ft, st, fs, pfs, offset, bitsVars, tunerVars>>

\* lines 267-275 with the header parser called, up to the head of the
\* information-element loop
Dispatch ==
    /\ pc = "dispatch"
    /\ \E longsz \in NativeLongSizes :
         \E r \in {dispatch(ft, st, frame, pfs, mac, offset, longsz)} :
             IF r.exc.type # "none"
             THEN /\ raised' = r.exc
                  /\ pc' = "done"
                  /\ UNCHANGED <<pfs, mac, offset>>
             ELSE /\ pfs' = r.pfs /\ mac' = r.d /\ offset' = r.o
                  /\ pc' = IF r.scan THEN "ies" ELSE "finish"
                  /\ UNCHANGED raised
    /\ UNCHANGED <<input, hasFCS, frame, ft, st, fs, bitsVars, tunerVars>>

\* one iteration of the information-element loop, lines 508-527
IEStep ==
    /\ pc = "ies"
    /\ offset < Len(frame)
    /\ \E longsz \in NativeLongSizes :
         \E r \in {ie_step(frame, mac, offset, longsz)} :
             IF r.exc.type # "none"
             THEN /\ raised' = r.exc
                  /\ pc' = "done"
                  /\ UNCHANGED <<mac, offset>>
             ELSE /\ mac' = r.d /\ offset' = r.o
                  /\ pc' = IF r.o < Len(frame) THEN "ies" ELSE "finish"
                  /\ UNCHANGED raised
    /\ UNCHANGED <<input, hasFCS, frame, ft, st, fs, pfs, bitsVars, tunerVars>>

\* lines 277-286
Finish ==
    /\ pc = "finish"
    /\ pfs' = present(pfs, hasFCS)
    /\ mac' = Put(Put(Put(mac, "vers", 0), "sz", <<offset, ttlRead(offset, hasFCS)>>),
                  "present", present(pfs, hasFCS))
    /\ pc' = "done"
    /\ UNCHANGED <<input, hasFCS, frame, ft, st, fs, offset, raised, bitsVars, tunerVars>>

Next == Framectrl \/ MinFrame \/ Dispatch \/ IEStep \/ Finish

Spec == Init /\ [][Next]_vars

---------------------------------------------------------------------------
(* wraith-rt.py: the state flags of the panel *)

_STATE_FLAGS_NAME_ == <<"init", "store", "conn", "nidus", "dyskt", "exit">>
_STATE_FLAGS_ ==
    ("init" :> 1) @@ ("store" :> 2) @@ ("conn" :> 4) @@ ("nidus" :> 8)
    @@ ("dyskt" :> 16) @@ ("exit" :> 32)

\* _setstate(f,up) on self._state = state: the new self._state
_setstate(state, f, up) ==
    IF up THEN bitmask_set(_STATE_FLAGS_, state, _STATE_FLAGS_NAME_[f + 1]).val
    ELSE bitmask_unset(_STATE_FLAGS_, state, _STATE_FLAGS_NAME_[f + 1]).val

---------------------------------------------------------------------------
(* One call of a pure function: fn is the function, args its arguments,    *)
(* ret is <<>> until it returns and <<value>> afterwards.                  *)

\* the flag tables of the sources
Tables ==
    {_FC_FIELDS_, _QOS_FIELDS_, _BACTRL_, _QOS_AP_PS_BUFFER_FIELDS,
     _QOS_MESH_FIELDS_, _STATE_FLAGS_}

\* a name that no table defines
NoSuchFlag == "zz"

FlagNames(bm) == (DOMAIN bm) \cup {NoSuchFlag}

\* parse() is not running
MpduIdle ==
    /\ input = <<>> /\ hasFCS = FALSE /\ pc = "idle" /\ frame = <<>>
    /\ ft = None /\ st = None /\ fs = None
    /\ pfs = <<>> /\ mac = <<>> /\ offset = 0 /\ raised = NoExc

BitsInit ==
    /\ \/ fn = "seqctrl" /\ \E v \in Words : args = <<v>>
       \/ fn = "qosctrl" /\ \E lsb \in Bytes, msb \in TxopBytes : args = <<<<lsb, msb>>>>
       \/ fn \in {"qosapbufferstate", "fcfields", "fcfields_all"}
          /\ \E v \in Bytes : args = <<v>>
       \/ fn = "fcfields_get"
          /\ \E v \in Bytes, f \in FlagNames(_FC_FIELDS_) : args = <<v, f>>
       \/ fn \in {"bitmask", "bitmask_list"}
          /\ \E bm \in Tables, mn \in FlagValues : args = <<bm, mn>>
       \/ fn \in {"bitmask_get", "bitmask_set", "bitmask_unset"}
          /\ \E bm \in Tables, mn \in FlagValues :
                \E f \in FlagNames(bm) : args = <<bm, mn, f>>
       \/ fn = "_setstate"
          /\ \E state \in StateValues, f \in 0..5, up \in BOOLEAN : args = <<state, f, up>>
    /\ ret = <<>>
    /\ MpduIdle /\ TunerIdle

Seqctrl ==
    /\ fn = "seqctrl" /\ ret = <<>>
    /\ ret' = <<seqctrl(args[1])>>
    /\ UNCHANGED <<fn, args, mpduVars, tunerVars>>

Qosctrl ==
    /\ fn = "qosctrl" /\ ret = <<>>
    /\ ret' = <<qosctrl(args[1])>>
    /\ UNCHANGED <<fn, args, mpduVars, tunerVars>>

Qosapbufferstate ==
    /\ fn = "qosapbufferstate" /\ ret = <<>>
    /\ ret' = <<qosapbufferstate(args[1])>>
    /\ UNCHANGED <<fn, args, mpduVars, tunerVars>>

Fcfields ==
    /\ fn = "fcfields" /\ ret = <<>>
    /\ \E items \in ItemOrders(_FC_FIELDS_) : ret' = <<fcfields(args[1], items)>>
    /\ UNCHANGED <<fn, args, mpduVars, tunerVars>>

FcfieldsAll ==
    /\ fn = "fcfields_all" /\ ret = <<>>
    /\ ret' = <<fcfields_all(args[1])>>
    /\ UNCHANGED <<fn, args, mpduVars, tunerVars>>

FcfieldsGet ==
    /\ fn = "fcfields_get" /\ ret = <<>>
    /\ ret' = <<fcfields_get(args[1], args[2])>>
    /\ UNCHANGED <<fn, args, mpduVars, tunerVars>>

Bitmask ==
    /\ fn = "bitmask" /\ ret = <<>>
    /\ \E items \in ItemOrders(args[1]) : ret' = <<bitmask(args[1], args[2], items)>>
    /\ UNCHANGED <<fn, args, mpduVars, tunerVars>>

BitmaskList ==
    /\ fn = "bitmask_list" /\ ret = <<>>
    /\ ret' = <<bitmask_list(args[1], args[2])>>
    /\ UNCHANGED <<fn, args, mpduVars, tunerVars>>

BitmaskGet ==
    /\ fn = "bitmask_get" /\ ret = <<>>
    /\ ret' = <<bitmask_get(args[1], args[2], args[3])>>
    /\ UNCHANGED <<fn, args, mpduVars, tunerVars>>

BitmaskSet ==
    /\ fn = "bitmask_set" /\ ret = <<>>
    /\ ret' = <<bitmask_set(args[1], args[2], args[3])>>
    /\ UNCHANGED <<fn, args, mpduVars, tunerVars>>

BitmaskUnset ==
    /\ fn = "bitmask_unset" /\ ret = <<>>
    /\ ret' = <<bitmask_unset(args[1], args[2], args[3])>>
    /\ UNCHANGED <<fn, args, mpduVars, tunerVars>>

Setstate ==
    /\ fn = "_setstate" /\ ret = <<>>
    /\ ret' = <<_setstate(args[1], args[2], args[3])>>
    /\ UNCHANGED <<fn, args, mpduVars, tunerVars>>

BitsNext ==
    \/ Seqctrl \/ Qosctrl \/ Qosapbufferstate
    \/ Fcfields \/ FcfieldsAll \/ FcfieldsGet
    \/ Bitmask \/ BitmaskList \/ BitmaskGet \/ BitmaskSet \/ BitmaskUnset
    \/ Setstate

BitsSpec == BitsInit /\ [][BitsNext]_vars

\* the call of name has returned
Called(name) == fn = name /\ ret # <<>>

---------------------------------------------------------------------------
(* suckt/rdoctl.py: the Tuner thread.  tpc is the place inside run():      *)
(* "loop" the test of the while, "poll" the wait of _tC.poll for the dwell *)
(* time, "recv" the recv after a poll that saw a token, "held" the recv    *)
(* that follows a hold, "switch" the else branch, "exit" after the loop.   *)
(* _tC holds the tokens sent and not yet received, _eQ the events put and  *)
(* not yet taken by the RadioController.                                   *)

\* tokens suckt sends on the connection; the last one is any other token
Tokens == {"!STOP!", "!HOLD!", "!RESUME!", "!OTHER!"}

\* scan lists of RadioController: never empty (ValueError otherwise)
ScanLists ==
    { <<<<1, "HT20">>>>,
      <<<<1, "HT20">>, <<6, "HT20">>>>,
      <<<<1, "HT20">>, <<6, "HT40+">>, <<11, "HT20">>>> }

\* tokens that can wait on the connection, events that can wait on the queue
MaxPending == 2
MaxEvents == 2

\* the index one step back
next_index_Back(i, n) == (i + n - 1) % n

\* line 70: (self._i+1) % len(self._chs)
next_index(i, n) == (i + 1) % n

\* self._eQ.put((ev,time.time(),..))
put(q, ev) == Append(q, ev)

\* the event the tuner puts for a token read by the recv of line 57, if any
poll_event(t) == IF t \in {"!STOP!", "!HOLD!"} THEN <<t>> ELSE <<>>

\* the event the tuner puts for a token read by the recv of line 62, if any
held_event(t) == IF t \in {"!RESUME!", "!STOP!"} THEN <<t>> ELSE <<>>

\* Tuner(ev,tC,iface,scan,dwell,i) as RadioController makes it (line 238),
\* started: i is the index of scan_start or 0
TunerInit ==
    /\ _chs \in ScanLists
    /\ _i \in 0..(Len(_chs) - 1)
    /\ _tC = <<>> /\ _eQ = <<>>
    /\ _done = FALSE
    /\ token = None
    /\ tpc = "loop"
    /\ tuned = <<>>
    /\ MpduIdle /\ BitsIdle

\* line 51: while not self._done.is_set()
LoopTest ==
    /\ tpc = "loop"
    /\ tpc' = IF _done THEN "exit" ELSE "poll"
    /\ UNCHANGED <<_chs, _i, _tC, _eQ, _done, token, tuned, mpduVars, bitsVars>>

\* line 56: poll returns True, a token is waiting
PollToken ==
    /\ tpc = "poll" /\ _tC # <<>>
    /\ tpc' = "recv"
    /\ UNCHANGED <<_chs, _i, _tC, _eQ, _done, token, tuned, mpduVars, bitsVars>>

\* line 56: the dwell time passes with no token, poll returns False
PollTimeout ==
    /\ tpc = "poll" /\ _tC = <<>>
    /\ tpc' = "switch"
    /\ UNCHANGED <<_chs, _i, _tC, _eQ, _done, token, tuned, mpduVars, bitsVars>>

\* lines 57-61: the token after the poll
Recv ==
    /\ tpc = "recv" /\ _tC # <<>>
    /\ Len(_eQ) + Len(poll_event(Head(_tC))) <= MaxEvents
    /\ token' = Head(_tC)
    /\ _tC' = Tail(_tC)
    /\ _eQ' = _eQ \o poll_event(Head(_tC))
    /\ tpc' = IF Head(_tC) = "!HOLD!" THEN "held" ELSE "loop"
    /\ UNCHANGED <<_chs, _i, _done, tuned, mpduVars, bitsVars>>

\* lines 62-66: the recv that blocks after a hold, and its token
HeldRecv ==
    /\ tpc = "held" /\ _tC # <<>>
    /\ Len(_eQ) + Len(held_event(Head(_tC))) <= MaxEvents
    /\ token' = Head(_tC)
    /\ _tC' = Tail(_tC)
    /\ _eQ' = _eQ \o held_event(Head(_tC))
    /\ tpc' = "loop"
    /\ UNCHANGED <<_chs, _i, _done, tuned, mpduVars, bitsVars>>

\* lines 69-73: the next channel, iw.chset returning
Switch ==
    /\ tpc = "switch"
    /\ _i' = next_index(_i, Len(_chs))
    /\ tuned' = _chs[_i' + 1]
    /\ tpc' = "loop"
    /\ UNCHANGED <<_chs, _tC, _eQ, _done, token, mpduVars, bitsVars>>

\* lines 69-79: the next channel, iw.chset raising
SwitchFail ==
    /\ tpc = "switch"
    /\ Len(_eQ) < MaxEvents
    /\ _i' = next_index(_i, Len(_chs))
    /\ _eQ' = put(_eQ, "!FAIL!")
    /\ tpc' = "loop"
    /\ UNCHANGED <<_chs, _tC, _done, token, tuned, mpduVars, bitsVars>>

\* suckt sends a token on the connection
Send ==
    /\ Len(_tC) < MaxPending
    /\ \E t \in Tokens : _tC' = Append(_tC, t)
    /\ UNCHANGED <<_chs, _i, _eQ, _done, token, tpc, tuned, mpduVars, bitsVars>>

\* RadioController takes an event with get_nowait (line 294); on '!STOP!'
\* it leaves its loop and shuts the tuner down (lines 329, 347)
TakeEvent ==
    /\ _eQ # <<>>
    /\ _eQ' = Tail(_eQ)
    /\ _done' = (_done \/ Head(_eQ) = "!STOP!")
    /\ UNCHANGED <<_chs, _i, _tC, token, tpc, tuned, mpduVars, bitsVars>>

\* shutdown() (line 47), the RadioController leaving on an error of its own
Shutdown ==
    /\ ~_done
    /\ _done' = TRUE
    /\ UNCHANGED <<_chs, _i, _tC, _eQ, token, tpc, tuned, mpduVars, bitsVars>>

TunerNext ==
    \/ LoopTest \/ PollToken \/ PollTimeout \/ Recv \/ HeldRecv
    \/ Switch \/ SwitchFail \/ Send \/ TakeEvent \/ Shutdown

TunerSpec == TunerInit /\ [][TunerNext]_vars

---------------------------------------------------------------------------
\* parse() returned the dict mac
Returned == pc = "done" /\ raised.type = "none"
\* parse() was left by an exception
Failed == pc = "done" /\ raised.type # "none"

TypeOK ==
    /\ pc \in {"framectrl", "minframe", "dispatch", "ies", "finish", "done"}
    /\ hasFCS \in BOOLEAN
    /\ raised.type \in {"none", "MPDUException", "struct.error"}

---------------------------------------------------------------------------
(* Properties *)

Names(seq) == { seq[i] : i \in 1..Len(seq) }

\* bits 2..3 of the first byte, and membership of a first byte in the
\* three tables, stated on the bits
TypeBits(b) == (b \div 4) % 4
VersionBits(b) == b % 4
Classifiable(b) == VersionBits(b) = 0 /\ TypeBits(b) # 3

\* framectrl() returned, so ft, st and fs are bound
Classified ==
    /\ pc # "framectrl"
    /\ raised.msg \notin {"invalid frame size", "invalid frame type/subtype",
                          "invalid frame control flags"}

\* C1: every returned record has sz[0] <= sz[1] <= len(buffer), and
\* sz[0] = sz[1] when hasFCS is false
C1_SizeWithinBuffer ==
    Returned =>
        /\ mac["sz"][1] <= mac["sz"][2]
        /\ mac["sz"][2] <= Len(input)
        /\ (~hasFCS => mac["sz"][1] = mac["sz"][2])

\* C2: in every returned record sz[1] - sz[0] is 4 with hasFCS and 0
\* without, and 'fcs' is in present, as its last entry only, iff hasFCS
C2_FcsAccounting ==
    Returned =>
        LET pr == mac["present"]
        IN  /\ mac["sz"][2] - mac["sz"][1] = (IF hasFCS THEN 4 ELSE 0)
            /\ ("fcs" \in Names(pr)) <=> hasFCS
            /\ \A i \in 1..Len(pr) : pr[i] = "fcs" => i = Len(pr)

C2_Witness ==
    /\ Returned /\ hasFCS
    /\ mac["sz"] = <<16, 20>>
    /\ mac["present"] = <<"framectrl", "duration", "addr1", "addr2", "fcs">>

\* C3: parse ends in a record or in MPDUException, never in another
\* exception
C3_OnlyTypedError ==
    pc = "done" => raised.type \in {"none", "MPDUException"}

\* C4: in the information-element loop an element whose length byte
\* exceeds the bytes left after the tag/length pair ends the call with
\* the unpacking MPDUException
C4_OverlongElementFails ==
    [][ ( /\ pc = "ies"
          /\ offset + 2 <= Len(frame)
          /\ frame[offset + 2] > Len(frame) - (offset + 2) )
        => ( pc' = "done" /\ raised' = Exc("MPDUException", "Error unpacking") ) ]_vars

\* C5: every name in present is a key of the returned record
C5_PresentNamesPopulated ==
    Returned => \A n \in Names(mac["present"]) : n \in DOMAIN mac

\* C6: every key of the returned record other than vers, sz and present
\* is named in present
C6_PopulatedNamesPresent ==
    Returned =>
        \A k \in (DOMAIN mac) \ {"vers", "sz", "present"} : k \in Names(mac["present"])

\* C7: a returned record has addr4, and lists it in present, iff the
\* frame is a Data frame with bits 0 and 1 of the flags byte both set;
\* Management and Control records never have it
C7_Addr4 ==
    Returned =>
        LET both == input[2] % 2 = 1 /\ (input[2] \div 2) % 2 = 1
        IN  /\ ("addr4" \in DOMAIN mac) <=> (TypeBits(input[1]) = 2 /\ both)
            /\ ("addr4" \in Names(mac["present"])) <=> (TypeBits(input[1]) = 2 /\ both)

C7_Witness ==
    /\ Returned
    /\ mac["framectrl"]["type"] = FT_DATA
    /\ mac["framectrl"]["flags"] = 3
    /\ "addr4" \in DOMAIN mac

\* C8: a buffer shorter than 10 bytes fails with 'invalid frame size'
\* whatever its first byte, and never gets past the classification
C8_ShortBufferInvalidSize ==
    Len(input) < 10 =>
        /\ pc \in {"framectrl", "done"}
        /\ pc = "done" => raised = Exc("MPDUException", "invalid frame size")

C8_Witness ==
    /\ pc = "done"
    /\ Len(input) = 9
    /\ ~Classifiable(input[1])
    /\ raised.msg = "invalid frame size"

\* C9: for a buffer of at least 10 bytes the classification fails with
\* 'invalid frame type/subtype' iff the version bits of the first byte are
\* non-zero or its type bits are 3; otherwise type = bits 2..3, subtype =
\* bits 4..7 and flags = the second byte
C9_Classification ==
    (pc # "framectrl" /\ Len(input) >= 10) =>
        IF Classifiable(input[1])
        THEN /\ raised.msg # "invalid frame type/subtype"
             /\ ft = TypeBits(input[1])
             /\ st = input[1] \div 16
             /\ fs = input[2]
        ELSE /\ pc = "done"
             /\ raised = Exc("MPDUException", "invalid frame type/subtype")

C9_Witness ==
    /\ Returned
    /\ input[1] = 196
    /\ ft = FT_CTRL /\ st = ST_CTRL_CTS /\ fs = input[2]

\* C10 as stated: parsing a frame of at least 10 bytes whose type bits are
\* Rsrv ends with the 'unresolved' error
C10_RsrvUnresolved ==
    (pc = "done" /\ Len(input) >= 10 /\ TypeBits(input[1]) = FT_RSRV) =>
        raised = Exc("MPDUException", "unresolved")

\* C10 amended: a frame whose type bits are Rsrv never yields a record; the
\* call fails in the classification, with 'invalid frame size' below 10
\* bytes and 'invalid frame type/subtype' otherwise, and 'unresolved' is
\* never raised
C10_RsrvRejectedByClassification ==
    /\ raised.msg # "unresolved"
    /\ Classified => ft # FT_RSRV
    /\ (pc # "framectrl" /\ Len(input) >= 1 /\ TypeBits(input[1]) = FT_RSRV) =>
          /\ pc = "done"
          /\ raised = Exc("MPDUException",
                          IF Len(input) < 10 THEN "invalid frame size"
                          ELSE "invalid frame type/subtype")

C10_Witness ==
    /\ pc = "done"
    /\ Len(input) >= 10
    /\ input[1] = 12
    /\ raised.msg = "invalid frame type/subtype"

\* C11 as stated: a returned Data record lists 'qos' in present iff its
\* subtype is one of 8..15 other than 13, and sz[0] is 24, plus 6 with
\* addr4, plus 2 with such a subtype
C11_QosExceptReserved ==
    (Returned /\ ft = FT_DATA) =>
        LET q == st \in (8..15) \ {ST_DATA_RSRV_13}
            a == "addr4" \in Names(mac["present"])
        IN  /\ ("qos" \in Names(mac["present"])) <=> q
            /\ mac["sz"][1] = 24 + (IF a THEN 6 ELSE 0) + (IF q THEN 2 ELSE 0)

\* the 16-bit ba/bar control word of the buffer (offsets 16 and 17)
ControlWord == input[17] + 256 * input[18]
\* the key of the control record of a BlockAckReq / BlockAck
ControlKey == IF st = ST_CTRL_BLOCK_ACK_REQ THEN "barctrl" ELSE "bactrl"
\* the type named by bits 1 (multi-tid) and 2 (compressed-bm) of a word
PairType(w) ==
    IF (w \div 2) % 2 = 0
    THEN (IF (w \div 4) % 2 = 0 THEN "basic" ELSE "compressed")
    ELSE (IF (w \div 4) % 2 = 0 THEN "reserved" ELSE "multi-tid")

\* C12: in every returned BlockAckReq / BlockAck record the control record
\* has a type, and it is the one named by the (multi-tid, compressed-bm)
\* bits of the control word
C12_ControlType ==
    (Returned /\ ft = FT_CTRL /\ st \in {ST_CTRL_BLOCK_ACK_REQ, ST_CTRL_BLOCK_ACK}) =>
        /\ "type" \in DOMAIN mac[ControlKey]
        /\ mac[ControlKey]["type"] = PairType(ControlWord)
        /\ mac[ControlKey]["multi-tid"] = (ControlWord \div 2) % 2
        /\ mac[ControlKey]["compressed-bm"] = (ControlWord \div 4) % 2

C12_Witness ==
    /\ Returned /\ ft = FT_CTRL /\ st = ST_CTRL_BLOCK_ACK
    /\ ControlWord = 6 + 256 * 16
    /\ mac["bactrl"]["type"] = "multi-tid"

\* the number of bitmap bytes the control word of a BlockAck announces
BitmapBytes == IF (ControlWord \div 4) % 2 = 0 THEN 128 ELSE 8

\* C13 as stated: in a returned BlockAck record with multi-tid = 0 the
\* babitmap is the hex text of exactly the 128 (compressed-bm = 0) or 8
\* (compressed-bm = 1) bytes after the sequence control, so a frame
\* without that many bytes there returns no record
C13_WholeBitmap ==
    (Returned /\ ft = FT_CTRL /\ st = ST_CTRL_BLOCK_ACK /\ (ControlWord \div 2) % 2 = 0) =>
        /\ Len(frame) >= 20 + BitmapBytes
        /\ Len(mac["bainfo"]["babitmap"]) = 2 * BitmapBytes
        /\ mac["bainfo"]["babitmap"] = hexlify(SubSeq(frame, 21, 20 + BitmapBytes))

\* C14: in a returned BlockAckReq / BlockAck record of the reserved case
\* (multi-tid = 1, compressed-bm = 0) 'unparsed' is the hex text of all
\* bytes after the control word; sz[0] is the length of the frame without
\* its FCS for a BlockAckReq and 18 for a BlockAck
C14_ReservedCursor ==
    ( /\ Returned /\ ft = FT_CTRL
      /\ st \in {ST_CTRL_BLOCK_ACK_REQ, ST_CTRL_BLOCK_ACK}
      /\ PairType(ControlWord) = "reserved" ) =>
        LET info == IF st = ST_CTRL_BLOCK_ACK_REQ THEN mac["barinfo"] ELSE mac["bainfo"]
            n == Len(input) - (IF hasFCS THEN 4 ELSE 0)
        IN  /\ DOMAIN info = {"unparsed"}
            /\ info["unparsed"] = hexlify(SubSeq(input, 19, n))
            /\ mac["sz"][1] = (IF st = ST_CTRL_BLOCK_ACK_REQ THEN n ELSE 18)

C14_Witness ==
    /\ Returned /\ ft = FT_CTRL /\ st = ST_CTRL_BLOCK_ACK
    /\ PairType(ControlWord) = "reserved"
    /\ Len(frame) = 30
    /\ Len(mac["bainfo"]["unparsed"]) = 24
    /\ mac["sz"][1] = 18

\* the 16-bit little-endian word of the buffer at offset o
Word(o) == input[o + 1] + 256 * input[o + 2]

\* the per-TID item made of the words w0 and w1, on the bits
PerTidOf(w0, w1) ==
    ("fragno" :> w1 % 16) @@ ("seqno" :> w1 \div 16)
    @@ ("pertid-rsrv" :> w0 % 4096) @@ ("pertid-tid" :> w0 \div 4096)

\* C15: parsing a multi-TID BlockAckReq (multi-tid = 1, compressed-bm = 1)
\* whose control word has tid-info k returns a record iff at least 4*(k+1)
\* bytes follow the control word; the record has k+1 items in
\* barinfo.tids, item i made of the words at offsets 18+4*(i-1) and
\* 20+4*(i-1), and sz[0] = 18 + 4*(k+1); otherwise the call ends with the
\* unpacking MPDUException
C15_MultiTidRequest ==
    ( /\ pc = "done" /\ Classified
      /\ ft = FT_CTRL /\ st = ST_CTRL_BLOCK_ACK_REQ
      /\ Len(frame) >= 18
      /\ PairType(ControlWord) = "multi-tid" ) =>
        LET k == ControlWord \div 4096
        IN  IF Len(frame) - 18 >= 4 * (k + 1)
            THEN /\ Returned
                 /\ DOMAIN mac["barinfo"] = {"tids"}
                 /\ Len(mac["barinfo"]["tids"]) = k + 1
                 /\ \A i \in 1..(k + 1) :
                        mac["barinfo"]["tids"][i]
                            = PerTidOf(Word(18 + 4 * (i - 1)), Word(20 + 4 * (i - 1)))
                 /\ mac["sz"][1] = 18 + 4 * (k + 1)
            ELSE raised = Exc("MPDUException", "Error unpacking")

C15_Witness ==
    /\ Returned /\ ft = FT_CTRL /\ st = ST_CTRL_BLOCK_ACK_REQ
    /\ ControlWord = 6 + 256 * 16
    /\ Len(mac["barinfo"]["tids"]) = 2
    /\ mac["barinfo"]["tids"][1] = PerTidOf(52 + 256 * 18, 6 + 256 * 16)
    /\ mac["sz"][1] = 26

\* the list present of a header with the names extra after addr1
PresentOf(extra) ==
    <<"framectrl", "duration", "addr1">> \o extra
    \o (IF hasFCS THEN <<"fcs">> ELSE <<>>)

\* C16: a returned CTS or ACK record has sz[0] = 10 and present =
\* [framectrl, duration, addr1] (and fcs with hasFCS) whatever follows the
\* ten bytes; a returned RTS, PS-Poll, CF-End or CF-End+CF-Ack record has
\* sz[0] = 16 and addr2 after addr1 in present
C16_ShortControlHeaders ==
    (Returned /\ ft = FT_CTRL) =>
        /\ st \in {ST_CTRL_CTS, ST_CTRL_ACK} =>
              /\ mac["sz"][1] = 10
              /\ mac["present"] = PresentOf(<<>>)
        /\ st \in {ST_CTRL_RTS, ST_CTRL_PSPOLL, ST_CTRL_CFEND, ST_CTRL_CFEND_CFACK} =>
              /\ mac["sz"][1] = 16
              /\ mac["present"] = PresentOf(<<"addr2">>)
              /\ "addr2" \in DOMAIN mac

C16_Witness ==
    /\ Returned /\ ft = FT_CTRL /\ st = ST_CTRL_ACK
    /\ Len(frame) = 30
    /\ mac["sz"] = <<10, 10>>
    /\ mac["present"] = <<"framectrl", "duration", "addr1">>

\* the buffer starts with the first byte of a Control frame
IsControl == Len(input) >= 1 /\ VersionBits(input[1]) = 0 /\ TypeBits(input[1]) = FT_CTRL
\* the length of the buffer without its FCS
BodyLen == Len(input) - (IF hasFCS THEN 4 ELSE 0)
UnknownCtrl == Exc("MPDUException", "Unknown subtype in CTRL frame")

\* C17 as stated: parsing a Control frame (a buffer of at least 10 bytes
\* whose first byte is a Control one) with a subtype 0..6 ends with the
\* unknown-subtype error, and with a subtype 7..15 never does
C17_ReservedControlUnknown ==
    (pc = "done" /\ IsControl /\ Len(input) >= 10) =>
        IF input[1] \div 16 <= 6 THEN raised = UnknownCtrl ELSE raised # UnknownCtrl

\* C17 amended: parsing a Control frame with a subtype 0..6 never returns
\* a record; it ends with the unknown-subtype error when at least 10
\* bytes are left without the FCS, with the error of the minimum-header
\* unpack when fewer are, and with 'invalid frame size' when the buffer
\* itself is shorter than 10 bytes; with a subtype 7..15 it never ends
\* with the unknown-subtype error
C17_ReservedControlRejected ==
    (pc = "done" /\ IsControl) =>
        IF input[1] \div 16 <= 6
        THEN raised = (IF Len(input) < 10 THEN Exc("MPDUException", "invalid frame size")
                       ELSE IF BodyLen < 10
                       THEN Exc("MPDUException", "unpack requires a string of that length")
                       ELSE UnknownCtrl)
        ELSE raised # UnknownCtrl

C17_Witness ==
    /\ pc = "done"
    /\ Len(input) = 44
    /\ input[1] = 100
    /\ raised = UnknownCtrl

\* C18: a returned Management record of subtype ATIM, reserved 7 or
\* reserved 15 has sz[0] = 24, present ending with addr2, addr3, seqctrl
\* (and fcs), and neither fixed-params nor info-elements, whatever follows
\* the 24 bytes
C18_HeaderOnlyManagement ==
    ( /\ Returned /\ ft = FT_MGMT
      /\ st \in {ST_MGMT_ATIM, ST_MGMT_RSRV_7, ST_MGMT_RSRV_15} ) =>
        /\ mac["sz"][1] = 24
        /\ mac["present"] = PresentOf(<<"addr2", "addr3", "seqctrl">>)
        /\ "fixed-params" \notin DOMAIN mac
        /\ "info-elements" \notin DOMAIN mac

C18_Witness ==
    /\ Returned /\ ft = FT_MGMT /\ st = ST_MGMT_ATIM
    /\ Len(frame) = 44
    /\ mac["sz"] = <<24, 24>>

\* C19: a returned ACTION / ACTION_NOACK record has fixed-params =
\* {category, action} from the bytes at offsets 24 and 25; it has the
\* action element, holding all bytes after them, iff there are any; sz[0]
\* is the length of the frame without its FCS; and it has no
\* info-elements
C19_ActionFrames ==
    (Returned /\ ft = FT_MGMT /\ st \in {ST_MGMT_ACTION, ST_MGMT_ACTION_NOACK}) =>
        /\ mac["fixed-params"] = ("category" :> input[25]) @@ ("action" :> input[26])
        /\ ("action-el" \in DOMAIN mac) <=> (BodyLen > 26)
        /\ BodyLen > 26 => mac["action-el"] = SubSeq(input, 27, BodyLen)
        /\ mac["sz"][1] = BodyLen
        /\ "info-elements" \notin DOMAIN mac
        /\ "info-elements" \notin Names(mac["present"])

C19_Witness ==
    /\ Returned /\ ft = FT_MGMT /\ st = ST_MGMT_ACTION
    /\ Len(frame) = 30
    /\ Len(mac["action-el"]) = 4
    /\ mac["sz"][1] = 30

\* the widths of the fixed parameters, by subtype, as the claim lists them
FixedWidth ==
    (ST_MGMT_ASSOC_REQ :> 4) @@ (ST_MGMT_ASSOC_RESP :> 6) @@ (ST_MGMT_REASSOC_RESP :> 6)
    @@ (ST_MGMT_REASSOC_REQ :> 10) @@ (ST_MGMT_PROBE_REQ :> 0) @@ (ST_MGMT_TIMING_ADV :> 10)
    @@ (ST_MGMT_PROBE_RESP :> 12) @@ (ST_MGMT_BEACON :> 12) @@ (ST_MGMT_DISASSOC :> 2)
    @@ (ST_MGMT_DEAUTH :> 2) @@ (ST_MGMT_AUTH :> 6)

\* the errors of an unpack that ran out of bytes: of a header field
\* (_unpack_from_) and of the minimum header (parse)
ShortReads ==
    { Exc("MPDUException", "Error unpacking"),
      Exc("MPDUException", "unpack requires a string of that length") }

\* C20: for a Management frame of a subtype with fixed parameters of
\* width w (0 for PROBE_REQ), once the header parser is over: a frame with
\* fewer than 24 + w bytes (FCS aside) has ended with a short-read error;
\* otherwise the header was read, the first information element, if any,
\* is read at offset 24 + w, a record without information elements has
\* sz[0] = 24 + w, beacon-int of PROBE_RESP / BEACON is the u16 at offset
\* 32 times 1024 and aid of ASSOC_RESP / REASSOC_RESP is the u16 at offset
\* 28 modulo 2^14
C20_FixedParameterWidths ==
    ( /\ pc \in {"ies", "finish", "done"} /\ Classified
      /\ ft = FT_MGMT /\ st \in DOMAIN FixedWidth ) =>
        LET w == FixedWidth[st]
        IN  IF BodyLen < 24 + w
            THEN pc = "done" /\ raised \in ShortReads
            ELSE /\ (st # ST_MGMT_PROBE_REQ) <=> ("fixed-params" \in DOMAIN mac)
                 /\ (st # ST_MGMT_PROBE_REQ) <=> ("fixed-params" \in Names(pfs))
                 /\ IF "info-elements" \in DOMAIN mac
                    THEN /\ offset >= 24 + w
                         /\ mac["info-elements"] = <<>> => offset = 24 + w
                    ELSE /\ raised = NoExc
                         /\ offset = 24 + w
                         /\ BodyLen = 24 + w
                 /\ st \in {ST_MGMT_PROBE_RESP, ST_MGMT_BEACON} =>
                        mac["fixed-params"]["beacon-int"] = Word(32) * 1024
                 /\ st \in {ST_MGMT_ASSOC_RESP, ST_MGMT_REASSOC_RESP} =>
                        mac["fixed-params"]["aid"] = Word(28) % 16384

C20_Witness ==
    /\ pc = "ies" /\ ft = FT_MGMT /\ st = ST_MGMT_BEACON
    /\ offset = 36
    /\ mac["info-elements"] = <<>>
    /\ mac["fixed-params"]["beacon-int"] = (7 + 256 * 255) * 1024

\* C21: once the FCS step of parse is over, with hasFCS the local frame
\* is the buffer without its last 4 bytes, which is all the header parsers
\* and the information-element loop are given, and mac['fcs'] is the
\* little-endian 32-bit value of those 4 bytes (two 16-bit limbs, low
\* first); without hasFCS the frame is the buffer and there is no fcs
C21_FcsField ==
    (Classified /\ pc # "minframe") =>
        IF hasFCS
        THEN /\ frame = SubSeq(input, 1, Len(input) - 4)
             /\ mac["fcs"] = <<Word(Len(input) - 4), Word(Len(input) - 2)>>
             /\ Returned => mac["sz"][2] = mac["sz"][1] + 4
        ELSE /\ frame = input
             /\ "fcs" \notin DOMAIN mac

C21_Witness ==
    /\ Returned /\ hasFCS
    /\ Len(input) = 44
    /\ frame = SubSeq(input, 1, 40)
    /\ mac["fcs"] = <<6 + 256 * 16, 52 + 256 * 18>>

\* C29: with hasFCS a buffer of 10 to 13 bytes never returns a record: if
\* its first byte classifies, parse ends with the MPDUException of the
\* minimum-header unpack, else with 'invalid frame type/subtype'; so a
\* record returned with hasFCS comes from at least 14 bytes, and its
\* duration and addr1 are the bytes at offsets 2..9
C29_ShortWithFcs ==
    /\ (pc = "done" /\ hasFCS /\ Len(input) \in 10..13) =>
          raised = Exc("MPDUException",
                       IF Classifiable(input[1])
                       THEN "unpack requires a string of that length"
                       ELSE "invalid frame type/subtype")
    /\ (Returned /\ hasFCS) =>
          /\ Len(input) >= 14
          /\ mac["duration"] = Word(2)
          /\ mac["addr1"] = macaddr(SubSeq(input, 5, 10))

C29_Witness ==
    /\ pc = "done" /\ hasFCS
    /\ Len(input) = 13
    /\ input[1] = 196
    /\ raised = Exc("MPDUException", "unpack requires a string of that length")

\* v | of the masks bm[n], n in names
RECURSIVE OrMasks(_, _)
OrMasks(bm, names) ==
    IF names = {} THEN 0
    ELSE BitOr(bm[CHOOSE n \in names : TRUE],
               OrMasks(bm, names \ {CHOOSE n \in names : TRUE}))

\* bit k of v
Bit(v, k) == (v \div Pow2(k)) % 2

\* C22: for every 16-bit v, seqctrl(v) has fragno < 16 and seqno < 4096 and
\* fragno | (seqno << 4) gives v back
C22_SeqctrlLossless ==
    Called("seqctrl") =>
        /\ DOMAIN ret[1] = {"fragno", "seqno"}
        /\ ret[1]["fragno"] \in 0..15
        /\ ret[1]["seqno"] \in 0..4095
        /\ BitOr(ret[1]["fragno"], ret[1]["seqno"] * 16) = args[1]

C22_Witness ==
    /\ Called("seqctrl") /\ args[1] = 43981
    /\ ret[1]["fragno"] = 13 /\ ret[1]["seqno"] = 2748

\* C23: for every byte b, fcfields_all(b) has the eight names td..o for the
\* bits 0..7 and the masks of the names it reports as set, or'ed together,
\* are b
C23_FcfieldsRestore ==
    Called("fcfields_all") =>
        /\ DOMAIN ret[1] = {"td", "fd", "mf", "r", "pm", "md", "pf", "o"}
        /\ \A k \in 0..7 :
              ret[1][<<"td", "fd", "mf", "r", "pm", "md", "pf", "o">>[k + 1]] = Bit(args[1], k)
        /\ OrMasks(_FC_FIELDS_, {n \in DOMAIN ret[1] : ret[1][n] = 1}) = args[1]

C23_Witness ==
    /\ Called("fcfields_all") /\ args[1] = 193
    /\ {n \in DOMAIN ret[1] : ret[1][n] = 1} = {"td", "pf", "o"}

C25_QosControl ==
    Called("qosctrl") =>
        /\ DOMAIN ret[1] = {"tid", "eosp", "ack-policy", "a-msdu", "txop"}
        /\ ret[1]["tid"] = args[1][1] % 16
        /\ ret[1]["eosp"] = Bit(args[1][1], 4)
        /\ ret[1]["a-msdu"] = Bit(args[1][1], 7)
        /\ ret[1]["txop"] = args[1][2]
        /\ ret[1]["ack-policy"] = 32 * ((args[1][1] \div 32) % 4)
        /\ ret[1]["ack-policy"] \in {0, 32, 64, 96}
        /\ ret[1]["tid"] + 16 * ret[1]["eosp"] + ret[1]["ack-policy"]
              + 128 * ret[1]["a-msdu"] = args[1][1]

C25_Witness ==
    /\ Called("qosctrl") /\ args[1] = <<247, 9>>
    /\ ret[1]["tid"] = 7 /\ ret[1]["eosp"] = 1 /\ ret[1]["ack-policy"] = 96
    /\ ret[1]["a-msdu"] = 1 /\ ret[1]["txop"] = 9

\* C26: for every byte v, qosapbufferstate(v) has the fields rsrv (bit 0),
\* buffer-state-indicated (bit 1), high-pri (bits 2..3) and ap-buffered
\* (bits 4..7), and no flag of another table
C26_ApBufferFields ==
    Called("qosapbufferstate") =>
        /\ DOMAIN ret[1] = {"rsrv", "buffer-state-indicated", "high-pri", "ap-buffered"}
        /\ ret[1]["rsrv"] = Bit(args[1], 0)
        /\ ret[1]["buffer-state-indicated"] = Bit(args[1], 1)
        /\ ret[1]["high-pri"] = midx(2, 2, args[1])
        /\ ret[1]["ap-buffered"] = args[1] \div 16

\* C27: for every table t and value v the three views agree: the names in
\* bitmask(t,v) are the names bitmask_list(t,v) maps to 1 and the names n
\* with bitmask_get(t,v,n) = 1; bitmask_list has the names of t as keys;
\* bitmask(t,0) is empty; bitmask_get of a name t does not define raises
\* (KeyError, an MPDUException from fcfields_get) and returns nothing
C27_FlagViewsAgree ==
    /\ Called("bitmask") =>
          /\ {ret[1][k] : k \in 1..Len(ret[1])}
                = {n \in DOMAIN args[1] : bitmask_list(args[1], args[2])[n] = 1}
          /\ {ret[1][k] : k \in 1..Len(ret[1])}
                = {n \in DOMAIN args[1] : bitmask_get(args[1], args[2], n).val = 1}
          /\ \A j, k \in 1..Len(ret[1]) : ret[1][j] = ret[1][k] => j = k
          /\ args[2] = 0 => ret[1] = <<>>
    /\ Called("bitmask_list") =>
          /\ DOMAIN ret[1] = DOMAIN args[1]
          /\ \A n \in DOMAIN args[1] :
                ret[1][n] = IF BitAnd(args[1][n], args[2]) = args[1][n] THEN 1 ELSE 0
    /\ Called("bitmask_get") =>
          IF args[3] \in DOMAIN args[1]
          THEN ret[1] = [exc |-> NoExc, val |-> bitmask_list(args[1], args[2])[args[3]]]
          ELSE ret[1] = [exc |-> Exc("KeyError", args[3]), val |-> None]
    /\ Called("fcfields") =>
          {ret[1][k] : k \in 1..Len(ret[1])}
             = {n \in DOMAIN _FC_FIELDS_ : fcfields_all(args[1])[n] = 1}
    /\ Called("fcfields_get") =>
          IF args[2] \in DOMAIN _FC_FIELDS_
          THEN ret[1] = [exc |-> NoExc, val |-> fcfields_all(args[1])[args[2]]]
          ELSE ret[1] = [exc |-> Exc("MPDUException", "invalid frame control flag"),
                         val |-> None]

C27_Witness ==
    /\ Called("bitmask_get") /\ args[1] = _BACTRL_ /\ args[2] = 5
    /\ args[3] = NoSuchFlag /\ ret[1].exc.type = "KeyError"

\* the place of pc in the order of parse()
PcRank(p) ==
    CASE p = "framectrl" -> 0 [] p = "minframe" -> 1 [] p = "dispatch" -> 2
      [] p = "ies" -> 3 [] p = "finish" -> 4 [] p = "done" -> 5

\* the per-TID items of a multi-tid info field, <<>> where there is none
TidsOf(key) ==
    IF key \in DOMAIN mac /\ "tids" \in DOMAIN mac[key] THEN mac[key]["tids"] ELSE <<>>

\* C28: the offset never decreases; every step of parse moves on to a later
\* place, but for an iteration of the information-element loop, which
\* starts with bytes left and moves the offset on by 2 or more, so that
\* there are at most ceil(remaining / 2) iterations; the per-TID loops of
\* the multi-tid BlockAckReq and BlockAck run at most 16 times
C28_Terminates ==
    /\ [][/\ offset' >= offset
          /\ \/ PcRank(pc') > PcRank(pc)
             \/ /\ pc = "ies" /\ pc' = "ies"
                /\ offset < Len(frame)
                /\ offset' >= offset + 2
                /\ Len(mac'["info-elements"]) = Len(mac["info-elements"]) + 1]_vars
    /\ []("info-elements" \in DOMAIN mac =>
             /\ 2 * Len(mac["info-elements"]) <= offset - 24
             /\ Len(mac["info-elements"]) <= (Len(frame) - 24 + 1) \div 2)
    /\ [](Len(TidsOf("barinfo")) <= 16 /\ Len(TidsOf("bainfo")) <= 16)

C28_Witness ==
    /\ Returned /\ Len(input) = 44 /\ ~hasFCS
    /\ "info-elements" \in DOMAIN mac
    /\ Len(mac["info-elements"]) = 10
    /\ offset = 44

====
